---- MODULE Spec2Model ----
(***************************************************************************)
(* Rainfall alarm system: the two-tier polling scheduler                   *)
(* (server/scheduler.js), the regional alert state monitor                 *)
(* (server/services/weatherAlertService.js) and the alarm threshold        *)
(* evaluator (server/services/alarmService.js).                            *)
(*                                                                         *)
(* Rainfall amounts are in tenths of a millimetre (the code rounds every   *)
(* amount with toFixed(1)); delays are in milliseconds.                    *)
(*                                                                         *)
(* A JavaScript handler runs to its next await without interruption, so    *)
(* one action is one run of a handler from a timer firing or the           *)
(* settlement of an awaited promise up to the next suspension point.       *)
(***************************************************************************)
EXTENDS Integers, Sequences, FiniteSets, TLC

\* ------------------------------------------------------------------ bounds
NumMetros   == 2      \* metros (regions) in the database
NumStations == 3      \* weather stations in the database
MaxAlerts   == 2      \* parsed rain alerts returned by one bulletin fetch
MaxErrors   == 4      \* cap on consecutive failed alert checks
MaxCycles   == 2      \* processStations cycles in one behaviour
MaxItems    == 3      \* bulletins in one getWthrWrnList answer
MaxTmFc     == 2      \* issue times (tmFc) of one day
NumAuthorities == 2   \* issuing regional offices (stnId)
DailyLimit  == 2      \* getDailyLimit(): KMA_DAILY_LIMIT
MaxDays     == 2      \* KST days in one behaviour
MaxCallsPerDay == 4   \* callKmaApi invocations in one KST day
MaxFaultyStations == 1 \* stations whose rows the database refuses
MaxInFlight == 2      \* provider requests awaiting their answer

\* ------------------------------------------------------- program constants
ALERT_CHECK_IDLE   == 1800000
ALERT_CHECK_ACTIVE == 300000
FAST_POLL_INTERVAL == 300000
SLOW_POLL_INTERVAL == 1800000
FIRST_ALERT_DELAY  == 5000
FIRST_SLOW_DELAY   == 15000

BATCH_SIZE         == 5
REALTIME_THRESHOLD == 200
FORECAST_THRESHOLD == 550

Metros == 1..NumMetros

VARIABLES
  weather_stations, \* the station table joined with its district: station id
                    \* |-> [metro_id, cell]; cell is convertToGrid(lat, lon)
  alertState,       \* weatherAlertService.js module state
  alertCheckTimer,  \* scheduler.js timer handle: "null", "live" or "stale"
  fastPollTimer,
  slowPollTimer,
  alertPending,     \* number of armed, not yet fired or cleared timeouts
  fastPending,
  slowPending,
  alertDelay,       \* delayMs of the most recent setTimeout of each kind
  fastDelay,
  slowDelay,
  isPollRunning,    \* scheduler.js run lock
  running,          \* poll invocations past the lock, in start order
  alertChecks,      \* runAlertCheck invocations awaiting updateAlertState
  started,          \* startScheduler has been called
  lastEvent,        \* history: what the last handler did
  lastCheck,        \* history: {changed, error} of the last updateAlertState
  alertStateSent,   \* history: the last runAlertCheck called emitAlertState
  env,              \* what the provider can answer, see FullEnv
  cpc,              \* processStations: "idle", "aws", "fetch", "eval", "pause", "done"
  cycleNo,          \* cycles started so far
  cycStations,      \* processStations: its stations argument
  gridEntries,      \* processStations: the cells of gridGroups, in key order
  batchIdx,         \* processStations: index of the current batch, from 1
  inFlight,         \* cells whose getAWSRealtime15min call has not settled
  realtimeResults,  \* cell |-> the value its call settled with, this cycle
  evalPos,          \* <<index of the cell in the batch, index of the station>>
  forecastCache,    \* alarmService.js: cell |-> forecast of this cycle
  awsDataCache,     \* kmaAPI.js: station |-> what getAwsRn15FromCache finds
  prevRN1ByGrid,    \* alarmService.js: cell |-> RN1 of the previous cycle
  rainfall_realtime,\* rows inserted in this cycle, <<station, rainfall_15min>>
  rainfall_forecast,\* rows inserted in this cycle, <<station, rainfall_forecast>>
  evalLog,          \* history: the checkAlarmCondition calls of this cycle
  fetchCount,       \* history: cell |-> getAWSRealtime15min calls, this cycle
  forecastCalls,    \* history: getVsrtForecastHourly calls, this cycle
  emitted,          \* history: stations emitAlarm was called for, this cycle
  realtimeFailed,   \* history: cells whose realtime request failed, this cycle
  vsrtGridCache,    \* kmaAPI.js: the nationwide forecast grid, [loaded, grid]
  forecastFailed,   \* history: cells no forecast product answered for, this cycle
  forecastRequests, \* history: cell |-> [vsrt, fcst], requests made for its forecast
  noPrecip,         \* history: [ncst, forecast], cell |-> whether rain was reported with PTY = 0
  dbFails,          \* the stations whose rows the database may refuse to insert
  apiCallCount,     \* kmaAPI.js: calls counted on apiCallDate
  apiCallDate,      \* kmaAPI.js: the KST day of the count, 0 for ''
  kstDay,           \* getKSTDateKey(): the current KST day
  requestsInFlight, \* provider requests sent and not yet answered
  entered,          \* history: callKmaApi invocations on kstDay
  lastCall,         \* history: [op, thrown] of the last gateway call
  sentPastLimit,    \* history: operations requested on kstDay with the count at the limit
  wrnResponse,      \* history: the answer the last getWthrWrnList call got
  lastFetch,        \* history: what the last fetchWeatherAlerts resolved to
  prevAlertState    \* history: alertState when the last alert check began

\* rows of ALL_STATIONS_SQL
Stations == DOMAIN weather_stations

\* d.metro_id of the district a station belongs to (ALL_STATIONS_SQL join)
StationMetro(s) == weather_stations[s].metro_id

\* the key `${nx},${ny}` of convertToGrid(station.lat, station.lon)
CellOf(s) == weather_stations[s].cell

\* the seeded table: stations alternate between the metros, and two
\* neighbouring stations share a grid cell
SeededStations ==
  [s \in 1..NumStations |->
     [metro_id |-> ((s - 1) % NumMetros) + 1, cell |-> (s + 1) \div 2]]

schedVars == <<alertState, alertCheckTimer, fastPollTimer, slowPollTimer,
               alertPending, fastPending, slowPending,
               alertDelay, fastDelay, slowDelay,
               isPollRunning, running, alertChecks, started, lastEvent,
               lastCheck, alertStateSent>>

cycleVars == <<env, cpc, cycleNo, cycStations, gridEntries, batchIdx, inFlight,
               realtimeResults, evalPos, forecastCache, awsDataCache,
               prevRN1ByGrid, rainfall_realtime, rainfall_forecast, evalLog,
               fetchCount, forecastCalls, emitted, realtimeFailed,
               vsrtGridCache, forecastFailed, forecastRequests, noPrecip, dbFails>>

quotaVars == <<apiCallCount, apiCallDate, kstDay, requestsInFlight, entered,
               lastCall, sentPastLimit>>

fetchVars == <<wrnResponse, lastFetch, prevAlertState>>

\* what the scheduler's handlers leave alone
otherVars == <<weather_stations, cycleVars, quotaVars, fetchVars>>

vars == <<weather_stations, schedVars, cycleVars, quotaVars, fetchVars>>

\* ------------------------------------------------------------- helpers
Min(a, b) == IF a <= b THEN a ELSE b

RECURSIVE Pow2(_)
Pow2(n) == IF n <= 0 THEN 1 ELSE 2 * Pow2(n - 1)

RECURSIVE SortAsc(_)
\* [...set].sort((a, b) => a - b)
SortAsc(S) ==
  IF S = {} THEN <<>>
  ELSE LET m == CHOOSE x \in S : \A y \in S : x <= y
       IN <<m>> \o SortAsc(S \ {m})

SeqToSet(q) == {q[i] : i \in 1..Len(q)}

RemoveAt(q, i) == SubSeq(q, 1, i - 1) \o SubSeq(q, i + 1, Len(q))

RECURSIVE SeqsUpTo(_, _)
SeqsUpTo(S, n) ==
  IF n = 0 THEN {<<>>}
  ELSE LET shorter == SeqsUpTo(S, n - 1)
       IN shorter \cup {Append(q, x) : q \in {r \in shorter : Len(r) = n - 1}, x \in S}

\* clearTimeout(handle): only a live handle removes a pending timeout
ClearTimeout(handle, pend) == IF handle = "live" THEN pend - 1 ELSE pend

\* A pending timeout fires: either the one the handle variable refers to
\* (the handle then refers to a fired timeout) or one no variable refers to.
FireChoices(handle, pend) ==
  {viaHandle \in BOOLEAN :
     /\ viaHandle => handle = "live"
     /\ ~viaHandle => pend > (IF handle = "live" THEN 1 ELSE 0)}

HandleAfterFire(handle, viaHandle) == IF viaHandle THEN "stale" ELSE handle

\* ------------------------------------------ weatherAlertService.js
IdleState == [level |-> "IDLE", affectedMetroIds |-> <<>>, consecutiveErrors |-> 0]

\* What fetchWeatherAlerts resolves to: hasError, and the parsed alerts, each
\* given by the metro ids its region names resolve to
\* (resolveRegionsToMetroIds; a name outside the table resolves to nothing).
FetchResults ==
  {[hasError |-> TRUE, alerts |-> <<>>]}
    \cup {[hasError |-> FALSE, alerts |-> a] : a \in SeqsUpTo(SUBSET Metros, MaxAlerts)}

\* mutant: only the first alert's regions are taken
AllMetroIds_FirstOnly(alerts) == alerts[1]

AllMetroIds(alerts) == UNION {alerts[i] : i \in 1..Len(alerts)}

\* mutant: a failed fetch is handled like a fetch that found no bulletin
updateAlertState_ErrorDropsToIdle(st, res) ==
  IF res.hasError
  THEN [changed |-> st.level # "IDLE",
        state   |-> [level |-> "IDLE", affectedMetroIds |-> <<>>,
                     consecutiveErrors |-> st.consecutiveErrors + 1],
        error   |-> TRUE]
  ELSE LET next == IF Len(res.alerts) = 0
                   THEN [level |-> "IDLE", affectedMetroIds |-> <<>>,
                         consecutiveErrors |-> 0]
                   ELSE [level |-> "ACTIVE",
                         affectedMetroIds |-> SortAsc(AllMetroIds(res.alerts)),
                         consecutiveErrors |-> 0]
       IN [changed |-> st.level # next.level, state |-> next, error |-> FALSE]

\* mutant: a change of the affected metros counts as a change too
updateAlertState_ChangedOnRegions(st, res) ==
  IF res.hasError
  THEN [changed |-> FALSE,
        state   |-> [st EXCEPT !.consecutiveErrors = @ + 1],
        error   |-> TRUE]
  ELSE LET next == IF Len(res.alerts) = 0
                   THEN [level |-> "IDLE", affectedMetroIds |-> <<>>,
                         consecutiveErrors |-> 0]
                   ELSE [level |-> "ACTIVE",
                         affectedMetroIds |-> SortAsc(AllMetroIds(res.alerts)),
                         consecutiveErrors |-> 0]
       IN [changed |-> st.level # next.level
                         \/ st.affectedMetroIds # next.affectedMetroIds,
           state |-> next, error |-> FALSE]

\* updateAlertState after its fetch has resolved to res, from state st:
\* the value it returns, {changed, state, error}
updateAlertState(st, res) ==
  IF res.hasError
  THEN [changed |-> FALSE,
        state   |-> [st EXCEPT !.consecutiveErrors = @ + 1],
        error   |-> TRUE]
  ELSE LET next == IF Len(res.alerts) = 0
                   THEN [level |-> "IDLE", affectedMetroIds |-> <<>>,
                         consecutiveErrors |-> 0]
                   ELSE [level |-> "ACTIVE",
                         affectedMetroIds |-> SortAsc(AllMetroIds(res.alerts)),
                         consecutiveErrors |-> 0]
       IN [changed |-> st.level # next.level, state |-> next, error |-> FALSE]

\* mutant: NOT IN where the query has IN
getStationsForFastPoll_NotIn(st) ==
  IF st.level = "IDLE" \/ Len(st.affectedMetroIds) = 0
  THEN {}
  ELSE {s \in Stations : StationMetro(s) \notin SeqToSet(st.affectedMetroIds)}

\* mutant: only the first affected metro is polled by the fast tier
getStationsForFastPoll_FirstMetro(st) ==
  IF st.level = "IDLE" \/ Len(st.affectedMetroIds) = 0
  THEN {}
  ELSE {s \in Stations : StationMetro(s) = st.affectedMetroIds[1]}

getStationsForFastPoll(st) ==
  IF st.level = "IDLE" \/ Len(st.affectedMetroIds) = 0
  THEN {}
  ELSE {s \in Stations : StationMetro(s) \in SeqToSet(st.affectedMetroIds)}

\* mutant: no fallback to all stations while the alert check is erroring
getStationsForSlowPoll_NoErrorFallback(st) ==
  IF st.level = "IDLE" \/ Len(st.affectedMetroIds) = 0 THEN Stations
  ELSE {s \in Stations : StationMetro(s) \notin SeqToSet(st.affectedMetroIds)}

getStationsForSlowPoll(st) ==
  IF st.consecutiveErrors > 0 THEN Stations
  ELSE IF st.level = "IDLE" \/ Len(st.affectedMetroIds) = 0 THEN Stations
  ELSE {s \in Stations : StationMetro(s) \notin SeqToSet(st.affectedMetroIds)}

\* ------------------------------------------------------ scheduler.js
\* mutant: the backoff is not capped
getErrorBackoff_NoCap(consecutiveErrors) ==
  ALERT_CHECK_ACTIVE * Pow2(consecutiveErrors - 1)

getErrorBackoff(consecutiveErrors) ==
  Min(ALERT_CHECK_ACTIVE * Pow2(consecutiveErrors - 1), ALERT_CHECK_IDLE)

\* mutant: the check is always re-armed for the idle interval
scheduleAlertCheck_IdleDelay(handle, pend, delayMs) ==
  /\ alertCheckTimer' = "live"
  /\ alertPending' = ClearTimeout(handle, pend) + 1
  /\ alertDelay' = ALERT_CHECK_IDLE

\* scheduleAlertCheck(delayMs), the handle and pending count being (handle, pend)
scheduleAlertCheck(handle, pend, delayMs) ==
  /\ alertCheckTimer' = "live"
  /\ alertPending' = ClearTimeout(handle, pend) + 1
  /\ alertDelay' = delayMs

\* mutant: the previous timeout is not cleared
scheduleFastPoll_NoClear(handle, pend, delayMs) ==
  /\ fastPollTimer' = "live"
  /\ fastPending' = pend + 1
  /\ fastDelay' = delayMs

scheduleFastPoll(handle, pend, delayMs) ==
  /\ fastPollTimer' = "live"
  /\ fastPending' = ClearTimeout(handle, pend) + 1
  /\ fastDelay' = delayMs

scheduleSlowPoll(handle, pend, delayMs) ==
  /\ slowPollTimer' = "live"
  /\ slowPending' = ClearTimeout(handle, pend) + 1
  /\ slowDelay' = delayMs

\* mutant: the handle is forgotten but the timeout is left armed
stopFastPoll_NoClear(handle, pend) ==
  /\ fastPollTimer' = "null"
  /\ fastPending' = pend
  /\ fastDelay' = fastDelay

stopFastPoll(handle, pend) ==
  /\ fastPollTimer' = "null"
  /\ fastPending' = ClearTimeout(handle, pend)
  /\ fastDelay' = fastDelay

\* the fast timer variables as a handler leaves them when it arms nothing
KeepFastTimer(handle, pend) ==
  /\ fastPollTimer' = handle
  /\ fastPending' = pend
  /\ fastDelay' = fastDelay

\* mutant: the fast tier does not test the run-lock
FastLockHeld_Never == FALSE

\* runFastPoll line 191: the run-lock test
FastLockHeld == isPollRunning

\* runSlowPoll line 225: the run-lock test
SlowLockHeld == isPollRunning

\* runFastPoll line 198: nothing to do for the fast tier
FastNotNeeded(st) == st.level # "ACTIVE" /\ st.consecutiveErrors = 0

StartPoll(tier) ==
  /\ isPollRunning' = TRUE
  /\ running' = Append(running, [tier |-> tier, pc |-> "scope", stations |-> {}])

\* mutant: a skipped invocation of the fast tier arms no timer
runFastPoll_SkipNoRearm(st, handle, pend, ev) ==
  IF FastLockHeld
  THEN /\ KeepFastTimer(handle, pend)
       /\ UNCHANGED <<isPollRunning, running>>
       /\ lastEvent' = ev[1]
  ELSE IF FastNotNeeded(st)
  THEN /\ KeepFastTimer(handle, pend)
       /\ UNCHANGED <<isPollRunning, running>>
       /\ lastEvent' = ev[2]
  ELSE /\ KeepFastTimer(handle, pend)
       /\ StartPoll("fast")
       /\ lastEvent' = ev[3]

\* runFastPoll up to its first await, reading alert state st; ev names the
\* three outcomes for the history variable
runFastPoll(st, handle, pend, ev) ==
  IF FastLockHeld
  THEN /\ scheduleFastPoll(handle, pend, FAST_POLL_INTERVAL)
       /\ UNCHANGED <<isPollRunning, running>>
       /\ lastEvent' = ev[1]
  ELSE IF FastNotNeeded(st)
  THEN /\ KeepFastTimer(handle, pend)
       /\ UNCHANGED <<isPollRunning, running>>
       /\ lastEvent' = ev[2]
  ELSE /\ KeepFastTimer(handle, pend)
       /\ StartPoll("fast")
       /\ lastEvent' = ev[3]

alertTimerVars == <<alertCheckTimer, alertPending, alertDelay>>
fastTimerVars  == <<fastPollTimer, fastPending, fastDelay>>
slowTimerVars  == <<slowPollTimer, slowPending, slowDelay>>

StartScheduler ==
  /\ ~started
  /\ started' = TRUE
  /\ scheduleAlertCheck(alertCheckTimer, alertPending, FIRST_ALERT_DELAY)
  /\ scheduleSlowPoll(slowPollTimer, slowPending, FIRST_SLOW_DELAY)
  /\ lastEvent' = "start"
  /\ UNCHANGED <<alertState, fastTimerVars, isPollRunning, running, alertChecks,
                 lastCheck,
                 alertStateSent, otherVars>>

\* the alert timer fires: runAlertCheck up to await updateAlertState()
AlertTimerFire ==
  /\ alertPending > 0
  /\ \E viaHandle \in FireChoices(alertCheckTimer, alertPending) :
       alertCheckTimer' = HandleAfterFire(alertCheckTimer, viaHandle)
  /\ alertPending' = alertPending - 1
  /\ alertChecks' = alertChecks + 1
  /\ lastEvent' = "alertFire"
  /\ UNCHANGED <<alertState, alertDelay, fastTimerVars, slowTimerVars,
                 isPollRunning, running, started, lastCheck,
                 alertStateSent, otherVars>>

\* mutant: every successful check is broadcast
EmitsAlertState_EverySuccess(r) == ~r.error

\* runAlertCheck lines 60-66: whether emitAlertState(state) is called for
\* the result r of updateAlertState
EmitsAlertState(r) == ~r.error /\ r.changed

\* mutant: the catch block only logs
AlertCheckCatch_NoRearm(handle, pend) ==
  /\ alertCheckTimer' = handle
  /\ alertPending' = pend
  /\ alertDelay' = alertDelay

\* the catch block of runAlertCheck (lines 85-88)
AlertCheckCatch(handle, pend) ==
  scheduleAlertCheck(handle, pend, ALERT_CHECK_ACTIVE)

\* the bulletin fetch settles: the rest of updateAlertState, then the rest
\* of runAlertCheck (lines 61-84), which may call runFastPoll; or the
\* awaited updateAlertState rejects before it has replaced the alert state
\* (its code ahead of the try of fetchWeatherAlerts) and the catch block runs
AlertCheckDone ==
  /\ alertChecks > 0
  /\ alertChecks' = alertChecks - 1
  /\ \/ \E res \in FetchResults :
          LET r == updateAlertState(alertState, res) IN
          /\ res.hasError => alertState.consecutiveErrors < MaxErrors
          /\ alertState' = r.state
          /\ lastCheck' = [changed |-> r.changed, error |-> r.error]
          /\ alertStateSent' = EmitsAlertState(r)
          /\ IF r.error
             THEN /\ scheduleAlertCheck(alertCheckTimer, alertPending,
                                        getErrorBackoff(r.state.consecutiveErrors))
                  /\ lastEvent' = "alertError"
                  /\ UNCHANGED <<fastTimerVars, isPollRunning, running>>
             ELSE IF r.state.level = "ACTIVE"
             THEN /\ IF r.changed
                     THEN runFastPoll(r.state, fastPollTimer, fastPending,
                                      <<"toActiveSkip", "toActiveNoop", "toActiveStart">>)
                     ELSE /\ lastEvent' = "alertSame"
                          /\ UNCHANGED <<fastTimerVars, isPollRunning, running>>
                  /\ scheduleAlertCheck(alertCheckTimer, alertPending, ALERT_CHECK_ACTIVE)
             ELSE /\ IF r.changed
                     THEN /\ stopFastPoll(fastPollTimer, fastPending)
                          /\ lastEvent' = "toIdle"
                     ELSE /\ lastEvent' = "alertSame"
                          /\ UNCHANGED fastTimerVars
                  /\ scheduleAlertCheck(alertCheckTimer, alertPending, ALERT_CHECK_IDLE)
                  /\ UNCHANGED <<isPollRunning, running>>
     \/ /\ AlertCheckCatch(alertCheckTimer, alertPending)
        /\ lastEvent' = "alertThrow"
        /\ alertStateSent' = FALSE
        /\ UNCHANGED <<alertState, lastCheck, fastTimerVars, isPollRunning, running>>
  /\ UNCHANGED <<slowTimerVars, started, otherVars>>

\* mutant: a poll handler clears the error count it reads
AlertStateAfterPoll_ClearsErrors(st) == [st EXCEPT !.consecutiveErrors = 0]

\* the alert state runFastPoll and runSlowPoll leave: they read copies from
\* getCurrentAlertState() and the scope functions only read alertState
AlertStateAfterPoll(st) == st

\* the fast timer fires: runFastPoll up to its first await
FastTimerFire ==
  /\ fastPending > 0
  /\ \E viaHandle \in FireChoices(fastPollTimer, fastPending) :
       runFastPoll(alertState, HandleAfterFire(fastPollTimer, viaHandle),
                   fastPending - 1, <<"fastSkip", "fastNoop", "fastStart">>)
  /\ alertState' = AlertStateAfterPoll(alertState)
  /\ UNCHANGED <<alertTimerVars, slowTimerVars, alertChecks, started,
                 lastCheck,
                 alertStateSent, otherVars>>

\* the slow timer fires: runSlowPoll up to its first await
SlowTimerFire ==
  /\ slowPending > 0
  /\ \E viaHandle \in FireChoices(slowPollTimer, slowPending) :
       LET handle == HandleAfterFire(slowPollTimer, viaHandle) IN
       IF SlowLockHeld
       THEN /\ scheduleSlowPoll(handle, slowPending - 1, SLOW_POLL_INTERVAL)
            /\ UNCHANGED <<isPollRunning, running>>
            /\ lastEvent' = "slowSkip"
       ELSE /\ slowPollTimer' = handle
            /\ slowPending' = slowPending - 1
            /\ slowDelay' = slowDelay
            /\ StartPoll("slow")
            /\ lastEvent' = "slowStart"
  /\ alertState' = AlertStateAfterPoll(alertState)
  /\ UNCHANGED <<alertTimerVars, fastTimerVars, alertChecks, started,
                 lastCheck,
                 alertStateSent, otherVars>>

\* mutant: the slow tier re-arms only while no alert is in force, mirroring
\* the fast tier's conditional re-arming
EndPoll_SlowOnlyWhenIdle(i) ==
  /\ isPollRunning' = FALSE
  /\ running' = RemoveAt(running, i)
  /\ IF running[i].tier = "fast"
     THEN /\ IF alertState.level = "ACTIVE"
             THEN scheduleFastPoll(fastPollTimer, fastPending, FAST_POLL_INTERVAL)
             ELSE UNCHANGED fastTimerVars
          /\ UNCHANGED slowTimerVars
     ELSE /\ IF alertState.level = "IDLE"
             THEN scheduleSlowPoll(slowPollTimer, slowPending, SLOW_POLL_INTERVAL)
             ELSE UNCHANGED slowTimerVars
          /\ UNCHANGED fastTimerVars

\* mutant: the handlers have no finally block, the run-lock stays set
EndPoll_NoFinally(i) ==
  /\ isPollRunning' = isPollRunning
  /\ running' = RemoveAt(running, i)
  /\ IF running[i].tier = "fast"
     THEN /\ IF alertState.level = "ACTIVE"
             THEN scheduleFastPoll(fastPollTimer, fastPending, FAST_POLL_INTERVAL)
             ELSE UNCHANGED fastTimerVars
          /\ UNCHANGED slowTimerVars
     ELSE /\ scheduleSlowPoll(slowPollTimer, slowPending, SLOW_POLL_INTERVAL)
          /\ UNCHANGED fastTimerVars

\* the end of runFastPoll / runSlowPoll: finally, then the re-arming
EndPoll(i) ==
  /\ isPollRunning' = FALSE
  /\ running' = RemoveAt(running, i)
  /\ IF running[i].tier = "fast"
     THEN /\ IF alertState.level = "ACTIVE"
             THEN scheduleFastPoll(fastPollTimer, fastPending, FAST_POLL_INTERVAL)
             ELSE UNCHANGED fastTimerVars
          /\ UNCHANGED slowTimerVars
     ELSE /\ scheduleSlowPoll(slowPollTimer, slowPending, SLOW_POLL_INTERVAL)
          /\ UNCHANGED fastTimerVars

\* await getStationsFor...Poll() settles: the scope is computed from the
\* alert state of that moment; an empty scope ends the invocation at once
PollScope(i) ==
  /\ running[i].pc = "scope"
  /\ LET stations == IF running[i].tier = "fast"
                     THEN getStationsForFastPoll(alertState)
                     ELSE getStationsForSlowPoll(alertState)
     IN IF stations = {}
        THEN /\ EndPoll(i)
             /\ lastEvent' = running[i].tier \o "EndEmpty"
        ELSE /\ running' = [running EXCEPT ![i].pc = "process",
                                            ![i].stations = stations]
             /\ lastEvent' = running[i].tier \o "Process"
             /\ UNCHANGED <<isPollRunning, fastTimerVars, slowTimerVars>>
  /\ alertState' = AlertStateAfterPoll(alertState)
  /\ UNCHANGED <<alertTimerVars, alertChecks, started, lastCheck, alertStateSent,
                 otherVars>>

\* processStations settles, or throws into the catch of its caller; either
\* way the finally block and the re-arming after it run
PollFinish(i) ==
  /\ running[i].pc = "process"
  /\ EndPoll(i)
  /\ \E threw \in BOOLEAN :
       lastEvent' = running[i].tier \o (IF threw THEN "Error" ELSE "End")
  /\ alertState' = AlertStateAfterPoll(alertState)
  /\ UNCHANGED <<alertTimerVars, alertChecks, started, lastCheck, alertStateSent,
                 otherVars>>

TimersInit ==
  /\ alertCheckTimer = "null" /\ fastPollTimer = "null" /\ slowPollTimer = "null"
  /\ alertPending = 0 /\ fastPending = 0 /\ slowPending = 0
  /\ alertDelay = 0 /\ fastDelay = 0 /\ slowDelay = 0
  /\ isPollRunning = FALSE
  /\ running = <<>>
  /\ alertChecks = 0
  /\ started = FALSE
  /\ lastEvent = "init"
  /\ lastCheck = [changed |-> FALSE, error |-> FALSE]
  /\ alertStateSent = FALSE

SchedInit ==
  /\ alertState = IdleState
  /\ TimersInit

\* ---------------------------------------- processStations (scheduler.js)
EmptyMap == [x \in {} |-> 0]

\* all functions from a subset of D to R
PartialMaps(D, R) == UNION {[X -> R] : X \in SUBSET D}

\* the amounts, in tenths of a millimetre, the provider answers with
Rn1Values      == {0, 250}
AwsValues      == {200, 201}
ForecastValues == {0, 549, 550, 600}

\* the code -999.0 the provider writes for a missing observation
MissingCode == -9990

\* the answers to a getUltraSrtNcst request: the request throws (network
\* error, timeout, daily limit), the payload has no body or items, or it has
\* items with or without a PTY and an RN1 item
NcstThrow  == [kind |-> "throw", hasPty |-> FALSE, pty |-> 0, rn1Kind |-> "absent", rn1 |-> 0]
NcstNoBody == [kind |-> "nobody", hasPty |-> FALSE, pty |-> 0, rn1Kind |-> "absent", rn1 |-> 0]
NcstItems(hasPty, pty, rn1Kind, rn1) ==
  [kind |-> "items", hasPty |-> hasPty, pty |-> pty, rn1Kind |-> rn1Kind, rn1 |-> rn1]

NcstResponses(amounts) ==
  {NcstThrow, NcstNoBody}
    \cup {NcstItems(FALSE, 0, "number", a) : a \in amounts}
    \cup {NcstItems(TRUE, p, "number", a) : p \in {0, 1}, a \in amounts \cup {MissingCode}}
    \cup {NcstItems(TRUE, 1, k, 0) : k \in {"absent", "norain"}}

\* mutant: an answer without data resolves to a residual accumulation
getAWSRealtime15min_NoCatch(resp) ==
  IF resp.kind # "items" THEN 250
  ELSE IF ~resp.hasPty \/ resp.pty = 0 THEN 0
  ELSE IF resp.rn1Kind # "number" THEN 0
  ELSE IF resp.rn1 < 0 THEN 0
  ELSE resp.rn1

\* getAWSRealtime15min: the RN1 it resolves to for an answer
getAWSRealtime15min(resp) ==
  IF resp.kind = "throw" THEN 0
  ELSE IF resp.kind = "nobody" THEN 0
  ELSE IF ~resp.hasPty \/ resp.pty = 0 THEN 0
  ELSE IF resp.rn1Kind # "number" THEN 0
  ELSE IF resp.rn1 < 0 THEN 0
  ELSE resp.rn1

\* the request brought no observation at all
NcstFailed(resp) == resp.kind \in {"throw", "nobody"}

\* the answers to a getUltraSrtFcst request
FcstThrow  == [kind |-> "throw", hasRn1 |-> FALSE, hasPty |-> FALSE, pty |-> 0,
               rn1Kind |-> "absent", rn1 |-> 0]
FcstNoBody == [kind |-> "nobody", hasRn1 |-> FALSE, hasPty |-> FALSE, pty |-> 0,
               rn1Kind |-> "absent", rn1 |-> 0]
FcstItems(hasRn1, hasPty, pty, rn1Kind, rn1) ==
  [kind |-> "items", hasRn1 |-> hasRn1, hasPty |-> hasPty, pty |-> pty,
   rn1Kind |-> rn1Kind, rn1 |-> rn1]

FcstResponses(amounts) ==
  {FcstThrow, FcstNoBody, FcstItems(FALSE, TRUE, 1, "absent", 0),
   FcstItems(TRUE, TRUE, 1, "norain", 0)}
    \cup {FcstItems(TRUE, FALSE, 0, "number", a) : a \in amounts}
    \cup {FcstItems(TRUE, TRUE, p, "number", a) : p \in {0, 1}, a \in amounts}

\* getForecast45min: the RN1 it resolves to for an answer
getForecast45min(resp) ==
  IF resp.kind = "throw" THEN 0
  ELSE IF resp.kind = "nobody" THEN 0
  ELSE IF ~resp.hasRn1 THEN 0
  ELSE IF ~resp.hasPty \/ resp.pty = 0 THEN 0
  ELSE IF resp.rn1Kind # "number" THEN 0
  ELSE resp.rn1

\* the request brought no forecast at all
FcstFailed(resp) == resp.kind \in {"throw", "nobody"}

\* the points of the nationwide forecast grid: {rn1, pty}
GridPoints == {[rn1 |-> 600, pty |-> 1], [rn1 |-> 600, pty |-> 0]}

\* the answers to a nph-dfs_vsrt_grd request: it throws, or the text
\* parses into a grid (an empty one if it is not the expected table)
VsrtThrow   == [kind |-> "throw", grid |-> EmptyMap]
VsrtGrid(g) == [kind |-> "grid", grid |-> g]
VsrtResponses(cells, points) ==
  {VsrtThrow} \cup {VsrtGrid(g) : g \in PartialMaps(cells, points)}

\* vsrtGridCache = null
NullGridCache == [loaded |-> FALSE, grid |-> EmptyMap]

\* mutant: the grid's accumulation is returned whatever its PTY says
LookupGrid_IgnorePty(grid, c) ==
  IF c \notin DOMAIN grid THEN 0 ELSE grid[c].rn1

\* lines 576-580, 598-608: the forecast of a cell in a loaded grid
LookupGrid(grid, c) ==
  IF c \notin DOMAIN grid THEN 0
  ELSE IF grid[c].pty = 0 THEN 0
  ELSE grid[c].rn1

\* the answers whose precipitation type says "none"
NcstSaysNone(resp) == resp.kind = "items" /\ resp.hasPty /\ resp.pty = 0
FcstSaysNone(resp) == resp.kind = "items" /\ resp.hasRn1 /\ resp.hasPty /\ resp.pty = 0
GridSaysNone(grid, c) == c \in DOMAIN grid /\ grid[c].pty = 0

\* mutant: a failed grid request resolves to 0 without asking the fallback
getVsrtForecastHourly_NoFallback(c, configured, vsrtResp, fcstResp) ==
  LET viaFallback(vsrt) ==
        [value |-> getForecast45min(fcstResp), cache |-> vsrtGridCache,
         vsrt |-> vsrt, fcst |-> 1, failed |-> FcstFailed(fcstResp),
         none |-> FcstSaysNone(fcstResp), accumulation |-> fcstResp.rn1]
      viaGrid(grid, vsrt) ==
        [value |-> LookupGrid(grid, c), cache |-> [loaded |-> TRUE, grid |-> grid],
         vsrt |-> vsrt, fcst |-> 0, failed |-> c \notin DOMAIN grid,
         none |-> GridSaysNone(grid, c),
         accumulation |-> IF c \in DOMAIN grid THEN grid[c].rn1 ELSE 0]
  IN IF ~configured THEN viaFallback(0)
     ELSE IF vsrtGridCache.loaded THEN viaGrid(vsrtGridCache.grid, 0)
     ELSE IF vsrtResp.kind = "grid" THEN viaGrid(vsrtResp.grid, 1)
     ELSE [value |-> 0, cache |-> vsrtGridCache, vsrt |-> 1, fcst |-> 0,
           failed |-> TRUE, none |-> FALSE, accumulation |-> 0]

\* getVsrtForecastHourly(nx, ny): what it resolves to, the grid cache it
\* leaves, the requests it makes, whether no product answered for the
\* cell, and whether the answer used said PTY = 0 (with which accumulation);
\* configured says whether KMA_APIHUB_KEY is set
getVsrtForecastHourly(c, configured, vsrtResp, fcstResp) ==
  LET viaFallback(vsrt) ==
        [value |-> getForecast45min(fcstResp), cache |-> vsrtGridCache,
         vsrt |-> vsrt, fcst |-> 1, failed |-> FcstFailed(fcstResp),
         none |-> FcstSaysNone(fcstResp), accumulation |-> fcstResp.rn1]
      viaGrid(grid, vsrt) ==
        [value |-> LookupGrid(grid, c), cache |-> [loaded |-> TRUE, grid |-> grid],
         vsrt |-> vsrt, fcst |-> 0, failed |-> c \notin DOMAIN grid,
         none |-> GridSaysNone(grid, c),
         accumulation |-> IF c \in DOMAIN grid THEN grid[c].rn1 ELSE 0]
  IN IF ~configured THEN viaFallback(0)
     ELSE IF vsrtGridCache.loaded THEN viaGrid(vsrtGridCache.grid, 0)
     ELSE IF vsrtResp.kind = "grid" THEN viaGrid(vsrtResp.grid, 1)
     ELSE viaFallback(1)

SeededCells == {SeededStations[s].cell : s \in DOMAIN SeededStations}

FullEnv ==
  [ncst |-> NcstResponses(Rn1Values), aws |-> AwsValues, apihub |-> TRUE,
   vsrt |-> VsrtResponses(SeededCells, GridPoints),
   fcst |-> FcstResponses(ForecastValues)]

RECURSIVE Dedup(_)
\* the keys of gridGroups in insertion order (Object.entries)
Dedup(q) ==
  IF q = <<>> THEN <<>>
  ELSE LET rest == Dedup(SubSeq(q, 1, Len(q) - 1))
           x    == q[Len(q)]
       IN IF x \in SeqToSet(rest) THEN rest ELSE Append(rest, x)

GridEntries(stations) == Dedup([i \in 1..Len(stations) |-> CellOf(stations[i])])

\* gridGroups[key].stations
GroupStations(stations, c) ==
  LET InCell(s) == CellOf(s) = c IN SelectSeq(stations, InCell)

\* mutant: the array is not split
chunk_Whole(arr, n) == IF arr = <<>> THEN <<>> ELSE <<arr>>

\* chunk(arr, n)
chunk(arr, n) ==
  [k \in 1..((Len(arr) + n - 1) \div n) |->
     SubSeq(arr, (k - 1) * n + 1, Min(k * n, Len(arr)))]

Batches == chunk(gridEntries, BATCH_SIZE)

\* mutant: the realtime fetch is made for every station of the cell
FetchesFor_PerStation(stations, c) == Len(GroupStations(stations, c))

\* calls of getAWSRealtime15min the batch.map callback makes for one cell
FetchesFor(stations, c) == 1

\* the scopes the two tiers hand to processStations
AlertStates ==
  {[level |-> "IDLE", affectedMetroIds |-> <<>>, consecutiveErrors |-> 0]}
    \cup {[level |-> "ACTIVE", affectedMetroIds |-> SortAsc(M), consecutiveErrors |-> e] :
            M \in SUBSET Metros, e \in {0, 1}}

Scopes ==
  ({getStationsForFastPoll(st) : st \in AlertStates}
     \cup {getStationsForSlowPoll(st) : st \in AlertStates}) \ {{}}

\* ------------------------------------- checkAlarmCondition (alarmService.js)
\* mutant: the boundary value goes on to the forecast
AtOrBelowRealtimeThreshold_Strict(realtime15min) == realtime15min < REALTIME_THRESHOLD

\* line 76: condition 1 is not met
AtOrBelowRealtimeThreshold(realtime15min) == realtime15min <= REALTIME_THRESHOLD

\* mutant: the boundary value does not alarm
ForecastAlarms_Strict(forecastHourly) == forecastHourly > FORECAST_THRESHOLD

\* line 105: condition 2
ForecastAlarms(forecastHourly) == forecastHourly >= FORECAST_THRESHOLD

\* kma.getAwsRn15FromCache(station.stn_id, station.lat, station.lon) # null
HasAwsRn15(s) == s \in DOMAIN awsDataCache

\* mutant: a cell without a baseline is measured from 0
ResolveRealtime_FromZero(s, preloadedRealtime, c) ==
  IF HasAwsRn15(s)
  THEN awsDataCache[s]
  ELSE LET prevRN1 == IF c \in DOMAIN prevRN1ByGrid THEN prevRN1ByGrid[c] ELSE 0
       IN IF preloadedRealtime >= prevRN1 THEN preloadedRealtime - prevRN1 ELSE 0

\* lines 45-67: the realtime value of a station
ResolveRealtime(s, preloadedRealtime, c) ==
  IF HasAwsRn15(s)
  THEN awsDataCache[s]
  ELSE IF c \in DOMAIN prevRN1ByGrid /\ preloadedRealtime >= prevRN1ByGrid[c]
       THEN preloadedRealtime - prevRN1ByGrid[c]
       ELSE 0

\* mutant: the per-cycle forecast cache is never consulted
ForecastCacheHit_Never(c) == FALSE

\* alarmService.js line 91: gridKey in forecastCache
ForecastCacheHit(c) == c \in DOMAIN forecastCache

\* whether the evaluation of s reaches kma.getVsrtForecastHourly
NeedsForecastCall(s, preloadedRealtime, c) ==
  /\ ~AtOrBelowRealtimeThreshold(ResolveRealtime(s, preloadedRealtime, c))
  /\ ~ForecastCacheHit(c)

\* mutant: the realtime row holds the fetched accumulation, not the
\* resolved 15-minute value
checkAlarmCondition_RowPreloaded(s, preloadedRealtime, c, fetched) ==
  LET realtime15min == ResolveRealtime(s, preloadedRealtime, c) IN
  IF AtOrBelowRealtimeThreshold(realtime15min)
  THEN [realtime15min |-> realtime15min, forecastHourly |-> 0, alarm |-> FALSE,
        forecastCalled |-> FALSE,
        rowRealtime |-> preloadedRealtime, rowForecast |-> 0,
        cache |-> forecastCache]
  ELSE LET hit == ForecastCacheHit(c)
           forecastHourly == IF hit THEN forecastCache[c] ELSE fetched
       IN [realtime15min |-> realtime15min, forecastHourly |-> forecastHourly,
           alarm |-> ForecastAlarms(forecastHourly),
           forecastCalled |-> ~hit,
           rowRealtime |-> preloadedRealtime, rowForecast |-> forecastHourly,
           cache |-> IF hit THEN forecastCache ELSE (c :> forecastHourly) @@ forecastCache]

\* mutant: the fetched forecast is not stored in forecastCache
checkAlarmCondition_NoStore(s, preloadedRealtime, c, fetched) ==
  LET realtime15min == ResolveRealtime(s, preloadedRealtime, c) IN
  IF AtOrBelowRealtimeThreshold(realtime15min)
  THEN [realtime15min |-> realtime15min, forecastHourly |-> 0, alarm |-> FALSE,
        forecastCalled |-> FALSE,
        rowRealtime |-> realtime15min, rowForecast |-> 0,
        cache |-> forecastCache]
  ELSE LET hit == ForecastCacheHit(c)
           forecastHourly == IF hit THEN forecastCache[c] ELSE fetched
       IN [realtime15min |-> realtime15min, forecastHourly |-> forecastHourly,
           alarm |-> ForecastAlarms(forecastHourly),
           forecastCalled |-> ~hit,
           rowRealtime |-> realtime15min, rowForecast |-> forecastHourly,
           cache |-> forecastCache]

\* checkAlarmCondition(station, preloadedRealtime, nx, ny): what it returns,
\* the rows it inserts and the forecast cache it leaves; fetched is what
\* getVsrtForecastHourly resolves to if it is called
checkAlarmCondition(s, preloadedRealtime, c, fetched) ==
  LET realtime15min == ResolveRealtime(s, preloadedRealtime, c) IN
  IF AtOrBelowRealtimeThreshold(realtime15min)
  THEN [realtime15min |-> realtime15min, forecastHourly |-> 0, alarm |-> FALSE,
        forecastCalled |-> FALSE,
        rowRealtime |-> realtime15min, rowForecast |-> 0,
        cache |-> forecastCache]
  ELSE LET hit == ForecastCacheHit(c)
           forecastHourly == IF hit THEN forecastCache[c] ELSE fetched
       IN [realtime15min |-> realtime15min, forecastHourly |-> forecastHourly,
           alarm |-> ForecastAlarms(forecastHourly),
           forecastCalled |-> ~hit,
           rowRealtime |-> realtime15min, rowForecast |-> forecastHourly,
           cache |-> IF hit THEN forecastCache ELSE (c :> forecastHourly) @@ forecastCache]

\* the batch.map of one batch: a getAWSRealtime15min call for each cell
IssueBatch(k, entries, stations) ==
  LET cells == SeqToSet(chunk(entries, BATCH_SIZE)[k]) IN
  /\ inFlight' = cells
  /\ fetchCount' = [c \in cells |-> FetchesFor(stations, c)
                                      + (IF c \in DOMAIN fetchCount THEN fetchCount[c] ELSE 0)]
                     @@ fetchCount

\* mutant: the forecast cache survives the start of a cycle
clearForecastCache_Keep == forecastCache

\* clearForecastCache(), clearVsrtGridCache(), clearAwsCache(): the caches
\* they leave
clearForecastCache == EmptyMap
clearVsrtGridCache == NullGridCache
clearAwsCache == EmptyMap

\* processStations is called: caches cleared, await fetchAllAwsData()
CycleStart ==
  /\ cpc \in {"idle", "done"}
  /\ cycleNo < MaxCycles
  /\ \E S \in Scopes : cycStations' = SortAsc(S)
  /\ cycleNo' = cycleNo + 1
  /\ cpc' = "aws"
  /\ forecastCache' = clearForecastCache
  /\ awsDataCache' = clearAwsCache
  /\ gridEntries' = <<>> /\ batchIdx' = 0 /\ inFlight' = {}
  /\ realtimeResults' = EmptyMap /\ evalPos' = <<0, 0>>
  /\ rainfall_realtime' = <<>> /\ rainfall_forecast' = <<>>
  /\ evalLog' = <<>> /\ fetchCount' = EmptyMap /\ forecastCalls' = 0
  /\ emitted' = <<>>
  /\ realtimeFailed' = {}
  /\ vsrtGridCache' = clearVsrtGridCache
  /\ forecastFailed' = {}
  /\ forecastRequests' = EmptyMap
  /\ noPrecip' = [ncst |-> EmptyMap, forecast |-> EmptyMap]
  /\ UNCHANGED <<env, dbFails, prevRN1ByGrid, weather_stations, schedVars, quotaVars, fetchVars>>

\* fetchAllAwsData settles (with the nationwide snapshot or without);
\* the stations are grouped by cell and the first batch is issued
AwsFetched ==
  /\ cpc = "aws"
  /\ \E m \in (IF env.apihub THEN PartialMaps(SeqToSet(cycStations), env.aws)
                               ELSE {EmptyMap}) : awsDataCache' = m
  /\ gridEntries' = GridEntries(cycStations)
  /\ batchIdx' = 1
  /\ IssueBatch(1, GridEntries(cycStations), cycStations)
  /\ cpc' = "fetch"
  /\ UNCHANGED <<env, dbFails, cycleNo, cycStations, realtimeResults, evalPos, forecastCache,
                 prevRN1ByGrid, rainfall_realtime, rainfall_forecast, evalLog,
                 forecastCalls, emitted, realtimeFailed, vsrtGridCache,
                 forecastFailed, forecastRequests, noPrecip, weather_stations, schedVars,
                 quotaVars, fetchVars>>

\* one getAWSRealtime15min call settles (it catches every error and
\* resolves to 0 then); the last one of the batch completes allSettled
FetchSettle(c) ==
  /\ cpc = "fetch"
  /\ c \in inFlight
  /\ \E resp \in env.ncst :
       /\ realtimeResults' = (c :> getAWSRealtime15min(resp)) @@ realtimeResults
       /\ realtimeFailed' = IF NcstFailed(resp) THEN realtimeFailed \cup {c}
                                                ELSE realtimeFailed
       /\ noPrecip' = IF NcstSaysNone(resp)
                      THEN [noPrecip EXCEPT !.ncst = (c :> (resp.rn1 > 0)) @@ @]
                      ELSE noPrecip
  /\ inFlight' = inFlight \ {c}
  /\ IF inFlight = {c}
     THEN cpc' = "eval" /\ evalPos' = <<1, 1>>
     ELSE UNCHANGED <<cpc, evalPos>>
  /\ UNCHANGED <<env, dbFails, cycleNo, cycStations, gridEntries, batchIdx, forecastCache,
                 awsDataCache, prevRN1ByGrid, rainfall_realtime, rainfall_forecast,
                 evalLog, fetchCount, forecastCalls, emitted, vsrtGridCache,
                 forecastFailed, forecastRequests, weather_stations, schedVars,
                 quotaVars, fetchVars>>

\* the answers an evaluation can meet: none matters unless it reaches
\* getVsrtForecastHourly, the grid's only if the grid is to be fetched, the
\* fallback's only if the grid is neither cached nor delivered
VsrtChoices(s, pre, c) ==
  IF NeedsForecastCall(s, pre, c) /\ env.apihub /\ ~vsrtGridCache.loaded
  THEN env.vsrt ELSE {VsrtThrow}

FcstChoices(s, pre, c, vsrtResp) ==
  IF /\ NeedsForecastCall(s, pre, c)
     /\ ~(env.apihub /\ vsrtGridCache.loaded)
     /\ ~(env.apihub /\ vsrtResp.kind = "grid")
  THEN env.fcst ELSE {FcstThrow}

\* updateGridRN1(gridKey, rn1): the baseline store it leaves
updateGridRN1(c, rn1) == (c :> rn1) @@ prevRN1ByGrid

\* mutant: the baseline is written after each station
BaselineAfter_EveryStation(c, rn1, k, group) == updateGridRN1(c, rn1)

\* lines 148-172: the baseline store after the k-th station of the cell's
\* group: updateGridRN1 follows the loop over group.stations
BaselineAfter(c, rn1, k, group) ==
  IF k < Len(group) THEN prevRN1ByGrid ELSE updateGridRN1(c, rn1)

\* the requests made for the forecast of cell c, added to the record
AddRequests(reqs, c, vsrt, fcst) ==
  LET old == IF c \in DOMAIN reqs THEN reqs[c] ELSE [vsrt |-> 0, fcst |-> 0]
  IN (c :> [vsrt |-> old.vsrt + vsrt, fcst |-> old.fcst + fcst]) @@ reqs

\* the loops of lines 139-173 after a station: the next station of the
\* cell, the next cell of the batch, the pause before the next batch or the
\* end of the cycle
NextPosition(batch, group) ==
  IF evalPos[2] < Len(group)
  THEN [pos |-> <<evalPos[1], evalPos[2] + 1>>, pc |-> cpc]
  ELSE IF evalPos[1] < Len(batch)
  THEN [pos |-> <<evalPos[1] + 1, 1>>, pc |-> cpc]
  ELSE [pos |-> <<0, 0>>,
        pc |-> IF batchIdx < Len(Batches) THEN "pause" ELSE "done"]

\* mutant: an evaluation that throws is not caught in the loop and ends
\* the cycle
AfterStation_NoCatch(returned, batch, group) ==
  IF returned THEN NextPosition(batch, group)
  ELSE [pos |-> <<0, 0>>, pc |-> "done"]

\* lines 149, 168-170: where the cycle goes on after checkAlarmCondition
\* returned or threw into the catch inside the loop
AfterStation(returned, batch, group) == NextPosition(batch, group)

\* websocket.js emitAlarm(alarm) for station s: one more alarm event
emitAlarm(events, s) == Append(events, s)

\* mutant: the alarm is emitted from the catch block as well
AlarmsAfter_OnThrow(events, returned, alarm, s) ==
  IF alarm THEN emitAlarm(events, s) ELSE events

\* lines 149-167: emitAlarm follows a checkAlarmCondition that returned
\* alarm = true, inside the try
AlarmsAfter(events, returned, alarm, s) ==
  IF returned /\ alarm THEN emitAlarm(events, s) ELSE events

\* where checkAlarmCondition can throw for station s: at the insert of the
\* realtime row (alarmService.js line 70) or of the forecast row (lines 77,
\* 100), if the database refuses the station's rows
ThrowChoices(s) ==
  IF s \in dbFails THEN {"none", "realtimeRow", "forecastRow"} ELSE {"none"}

\* lines 148-172: checkAlarmCondition for the next station, which returns or
\* throws into the catch of line 168; after the last station of a cell
\* updateGridRN1, after the last cell of the batch the next batch's pause
\* or the end of the cycle
EvalStation ==
  /\ cpc = "eval"
  /\ LET batch == Batches[batchIdx]
         c     == batch[evalPos[1]]
         group == GroupStations(cycStations, c)
         s     == group[evalPos[2]]
         pre   == realtimeResults[c]
     IN
     /\ \E threw \in ThrowChoices(s), vsrtResp \in VsrtChoices(s, pre, c) :
        \E fcstResp \in FcstChoices(s, pre, c, vsrtResp) :
          LET reached == threw # "realtimeRow"
              returned == threw = "none"
              call == reached /\ NeedsForecastCall(s, pre, c)
              f == getVsrtForecastHourly(c, env.apihub, vsrtResp, fcstResp)
              r == checkAlarmCondition(s, pre, c, f.value)
          IN
          /\ vsrtGridCache' = IF call THEN f.cache ELSE vsrtGridCache
          /\ forecastFailed' = IF call /\ f.failed THEN forecastFailed \cup {c}
                                                  ELSE forecastFailed
          /\ forecastRequests' =
               IF call THEN AddRequests(forecastRequests, c, f.vsrt, f.fcst)
                       ELSE forecastRequests
          /\ noPrecip' = IF call /\ f.none
                         THEN [noPrecip EXCEPT !.forecast = (c :> (f.accumulation > 0)) @@ @]
                         ELSE noPrecip
          /\ rainfall_realtime' =
               IF reached THEN Append(rainfall_realtime, <<s, r.rowRealtime>>)
                          ELSE rainfall_realtime
          /\ rainfall_forecast' =
               IF returned THEN Append(rainfall_forecast, <<s, r.rowForecast>>)
                           ELSE rainfall_forecast
          /\ forecastCache' = IF reached THEN r.cache ELSE forecastCache
          /\ forecastCalls' =
               forecastCalls + (IF returned /\ r.forecastCalled THEN 1 ELSE 0)
          /\ evalLog' =
               IF returned
               THEN Append(evalLog,
                      [station |-> s, cell |-> c, preloaded |-> pre,
                       realtime15min |-> r.realtime15min,
                       forecastHourly |-> r.forecastHourly, alarm |-> r.alarm,
                       forecastCalled |-> r.forecastCalled])
               ELSE evalLog
          /\ emitted' = AlarmsAfter(emitted, returned, r.alarm, s)
          /\ evalPos' = AfterStation(returned, batch, group).pos
          /\ cpc' = AfterStation(returned, batch, group).pc
     /\ prevRN1ByGrid' = BaselineAfter(c, pre, evalPos[2], group)
  /\ UNCHANGED <<env, dbFails, cycleNo, cycStations, gridEntries, batchIdx, inFlight,
                 realtimeResults, awsDataCache, fetchCount, realtimeFailed,
                 weather_stations, schedVars, quotaVars, fetchVars>>

\* line 128: the pause before a later batch ends and the batch is issued
BatchPauseDone ==
  /\ cpc = "pause"
  /\ batchIdx' = batchIdx + 1
  /\ IssueBatch(batchIdx + 1, gridEntries, cycStations)
  /\ cpc' = "fetch"
  /\ UNCHANGED <<env, dbFails, cycleNo, cycStations, gridEntries, realtimeResults, evalPos,
                 forecastCache, awsDataCache, prevRN1ByGrid, rainfall_realtime,
                 rainfall_forecast, evalLog, forecastCalls, emitted, realtimeFailed,
                 vsrtGridCache, forecastFailed, forecastRequests, noPrecip,
                 weather_stations, schedVars, quotaVars, fetchVars>>

\* ------------------------------------------ the daily call budget (kmaAPI.js)
\* the operations of apis.data.go.kr, which go through callKmaApi
GuardedOps == {"getUltraSrtNcst", "getUltraSrtFcst", "getWthrWrnList"}

\* the operations of apihub.kma.go.kr, requested with axios.get directly
DirectOps == {"nph-aws1_10m", "nph-dfs_vsrt_grd"}

\* mutant: one call more than the limit gets through
LimitReached_Late(count, limit) == count > limit

\* line 47
LimitReached(count, limit) == count >= limit

\* mutant: a sent request is counted twice
trackApiCall_Twice(count, date, today) ==
  IF date # today THEN [count |-> 2, date |-> today]
                  ELSE [count |-> count + 2, date |-> date]

\* trackApiCall()
trackApiCall(count, date, today) ==
  IF date # today THEN [count |-> 1, date |-> today]
                  ELSE [count |-> count + 1, date |-> date]

\* callKmaApi up to its await: the count and date it leaves and whether
\* it throws instead of sending the request
callKmaApi(count, date, today, limit) ==
  LET c0 == IF date # today THEN 0 ELSE count IN
  IF LimitReached(c0, limit)
  THEN [count |-> c0, date |-> today, thrown |-> TRUE]
  ELSE LET t == trackApiCall(c0, today, today)
       IN [count |-> t.count, date |-> t.date, thrown |-> FALSE]

\* the count stands at the limit for the current day
QuotaExhausted == apiCallDate = kstDay /\ apiCallCount >= DailyLimit

\* getAWSRealtime15min, getForecast45min or fetchWeatherAlerts calls
\* callKmaApi(op, ...)
CallKmaApi(op) ==
  /\ entered < MaxCallsPerDay
  /\ LET r == callKmaApi(apiCallCount, apiCallDate, kstDay, DailyLimit) IN
     /\ r.thrown \/ requestsInFlight < MaxInFlight
     /\ apiCallCount' = r.count
     /\ apiCallDate' = r.date
     /\ requestsInFlight' = IF r.thrown THEN requestsInFlight ELSE requestsInFlight + 1
     /\ lastCall' = [op |-> op, thrown |-> r.thrown]
     /\ sentPastLimit' = IF ~r.thrown /\ QuotaExhausted
                         THEN sentPastLimit \cup {op} ELSE sentPastLimit
  /\ entered' = entered + 1
  /\ UNCHANGED <<kstDay, weather_stations, schedVars, cycleVars, fetchVars>>

\* fetchAllAwsData or getVsrtForecastHourly requests op with axios.get
ApihubRequest(op) ==
  /\ env.apihub
  /\ requestsInFlight < MaxInFlight
  /\ requestsInFlight' = requestsInFlight + 1
  /\ lastCall' = [op |-> op, thrown |-> FALSE]
  /\ sentPastLimit' = IF QuotaExhausted THEN sentPastLimit \cup {op} ELSE sentPastLimit
  /\ UNCHANGED <<apiCallCount, apiCallDate, kstDay, entered,
                 weather_stations, schedVars, cycleVars, fetchVars>>

\* the provider answers a request, or the request times out
RequestSettles ==
  /\ requestsInFlight > 0
  /\ requestsInFlight' = requestsInFlight - 1
  /\ UNCHANGED <<apiCallCount, apiCallDate, kstDay, entered, lastCall, sentPastLimit,
                 weather_stations, schedVars, cycleVars, fetchVars>>

\* midnight in Korea
DayRollover ==
  /\ kstDay < MaxDays
  /\ kstDay' = kstDay + 1
  /\ entered' = 0
  /\ sentPastLimit' = {}
  /\ UNCHANGED <<apiCallCount, apiCallDate, requestsInFlight, lastCall,
                 weather_stations, schedVars, cycleVars, fetchVars>>

\* ------------------------------- fetchWeatherAlerts (weatherAlertService.js)
\* REGION_TO_METRO_ID[region], 0 for a name that is not in the table
REGION_TO_METRO_ID(region) ==
  CASE region \in {"Seoul-teukbyeolsi", "Seoul"} -> 1
    [] region \in {"Busan-gwangyeoksi", "Busan"} -> 2
    [] OTHER -> 0

RegionNames == {"Seoul-teukbyeolsi", "Seoul", "Busan", "Dokdo"}

\* resolveRegionsToMetroIds(regions), as the set of its elements
resolveRegionsToMetroIds(regions) ==
  {REGION_TO_METRO_ID(regions[i]) : i \in 1..Len(regions)} \ {0}

\* the lines a bulletin title (t2) can have: a heavy-rain watch or warning
\* with its regions, or anything else (a lifting, another hazard, a
\* preliminary notice), which parseAlertTitle does not match
RainLine(regions) == [rain |-> TRUE, regions |-> regions]
OtherLine == [rain |-> FALSE, regions |-> <<>>]

Titles ==
  {<<OtherLine>>, <<RainLine(<<"Seoul-teukbyeolsi">>)>>,
   <<RainLine(<<"Seoul", "Busan", "Seoul">>)>>,
   <<OtherLine, RainLine(<<"Dokdo">>)>>}

Authorities == 1..NumAuthorities

\* the items of a getWthrWrnList answer
Bulletins == [stnId : Authorities, tmFc : 1..MaxTmFc, t2 : Titles]

\* the answers to a getWthrWrnList request
WrnNone  == [kind |-> "none", items |-> <<>>]
WrnThrow == [kind |-> "throw", items |-> <<>>]
WrnItems(items) == [kind |-> "items", items |-> items]
WrnResponses == {WrnThrow} \cup {WrnItems(q) : q \in SeqsUpTo(Bulletins, MaxItems)}

RECURSIVE LatestByStn(_, _)
\* lines 138-146: the item kept for authority stn, <<>> if none is
LatestByStn(items, stn) ==
  IF items = <<>> THEN <<>>
  ELSE LET prev == LatestByStn(SubSeq(items, 1, Len(items) - 1), stn)
           item == items[Len(items)]
           prevTime == IF prev = <<>> THEN 0 ELSE prev[1].tmFc
       IN IF item.stnId = stn /\ item.tmFc > prevTime THEN <<item>> ELSE prev

\* mutant: only the single most recent bulletin of all authorities is kept
LatestBulletins_GlobalLatest(items) ==
  LET Latest(i) == \A j \in 1..Len(items) :
                     items[j].tmFc < items[i].tmFc \/ (items[j].tmFc = items[i].tmFc /\ i <= j)
      IsLatest(b) == \E i \in 1..Len(items) : Latest(i) /\ items[i] = b
  IN SelectSeq(items, IsLatest)

RECURSIVE ConcatLatest(_, _)
ConcatLatest(items, n) ==
  IF n = 0 THEN <<>> ELSE ConcatLatest(items, n - 1) \o LatestByStn(items, n)

\* Object.values(latestByStn)
LatestBulletins(items) == ConcatLatest(items, NumAuthorities)

\* parseAlertTitle over the lines of a title: the matching lines
ParsedLines(t2) ==
  LET Matches(line) == line.rain IN SelectSeq(t2, Matches)

RECURSIVE ParseAll(_)
\* lines 150-160: results, the parsed lines of all kept bulletins
ParseAll(bulletins) ==
  IF bulletins = <<>> THEN <<>>
  ELSE ParsedLines(bulletins[1].t2) \o ParseAll(Tail(bulletins))

\* what callKmaApi('getWthrWrnList') gives fetchWeatherAlerts: its own throw
\* at the daily limit, else whatever the request brings
WrnAnswers(thrown) == IF thrown THEN {WrnThrow} ELSE WrnResponses

\* mutant: a failed request is reported as a fetch that found no bulletin
fetchWeatherAlerts_ErrorAsEmpty(resp) ==
  IF resp.kind = "throw"
  THEN [hasError |-> FALSE, alerts |-> <<>>]
  ELSE LET results == ParseAll(LatestBulletins(resp.items))
       IN [hasError |-> FALSE,
           alerts |-> [i \in 1..Len(results) |->
                         resolveRegionsToMetroIds(results[i].regions)]]

\* fetchWeatherAlerts for an answer: hasError and the alerts, each given
\* by the metro ids its regions resolve to
fetchWeatherAlerts(resp) ==
  IF resp.kind = "throw"
  THEN [hasError |-> TRUE, alerts |-> <<>>]
  ELSE LET results == ParseAll(LatestBulletins(resp.items))
       IN [hasError |-> FALSE,
           alerts |-> [i \in 1..Len(results) |->
                         resolveRegionsToMetroIds(results[i].regions)]]

\* an alert check from the request to the new state: fetchWeatherAlerts,
\* then updateAlertState
AlertCheck ==
  /\ wrnResponse = WrnNone
  /\ LET q == callKmaApi(apiCallCount, apiCallDate, kstDay, DailyLimit) IN
     /\ apiCallCount' = q.count
     /\ apiCallDate' = q.date
     /\ lastCall' = [op |-> "getWthrWrnList", thrown |-> q.thrown]
     /\ \E resp \in WrnAnswers(q.thrown) :
          LET res == fetchWeatherAlerts(resp)
              r   == updateAlertState(alertState, res)
          IN /\ res.hasError => alertState.consecutiveErrors < MaxErrors
             /\ wrnResponse' = resp
             /\ lastFetch' = res
             /\ prevAlertState' = alertState
             /\ alertState' = r.state
             /\ lastCheck' = [changed |-> r.changed, error |-> r.error]
  /\ UNCHANGED <<alertTimerVars, fastTimerVars, slowTimerVars, isPollRunning,
                 running, alertChecks, started, lastEvent, alertStateSent,
                 weather_stations, cycleVars, kstDay, requestsInFlight,
                 entered, sentPastLimit>>

FetchInit ==
  /\ wrnResponse = WrnNone
  /\ lastFetch = [hasError |-> FALSE, alerts |-> <<>>]
  /\ prevAlertState = IdleState

QuotaInit ==
  /\ apiCallCount = 0
  /\ apiCallDate = 0
  /\ kstDay = 1
  /\ requestsInFlight = 0
  /\ entered = 0
  /\ lastCall = [op |-> "none", thrown |-> FALSE]
  /\ sentPastLimit = {}

CycleInit ==
  /\ cpc = "idle"
  /\ cycleNo = 0
  /\ cycStations = <<>>
  /\ gridEntries = <<>>
  /\ batchIdx = 0
  /\ inFlight = {}
  /\ realtimeResults = EmptyMap
  /\ evalPos = <<0, 0>>
  /\ forecastCache = EmptyMap
  /\ awsDataCache = EmptyMap
  /\ prevRN1ByGrid = EmptyMap
  /\ rainfall_realtime = <<>>
  /\ rainfall_forecast = <<>>
  /\ evalLog = <<>>
  /\ fetchCount = EmptyMap
  /\ forecastCalls = 0
  /\ emitted = <<>>
  /\ realtimeFailed = {}
  /\ vsrtGridCache = NullGridCache
  /\ forecastFailed = {}
  /\ forecastRequests = EmptyMap
  /\ noPrecip = [ncst |-> EmptyMap, forecast |-> EmptyMap]

Init ==
  /\ weather_stations = SeededStations
  /\ env = FullEnv
  /\ dbFails = {}
  /\ SchedInit
  /\ CycleInit
  /\ QuotaInit
  /\ FetchInit

\* a station table with more cells than one batch holds, one station each
WideStations ==
  [s \in 1..(BATCH_SIZE + 1) |-> [metro_id |-> ((s - 1) % NumMetros) + 1, cell |-> s]]

\* the provider's answers while the AWS snapshot is unavailable
WideEnv ==
  [ncst |-> {NcstThrow, NcstItems(TRUE, 1, "number", 250)}, aws |-> {}, apihub |-> TRUE,
   vsrt |-> {VsrtThrow, VsrtGrid([c \in 1..(BATCH_SIZE + 1) |-> [rn1 |-> 600, pty |-> 1]])},
   fcst |-> {FcstThrow}]

\* the seeded table without KMA_APIHUB_KEY: no AWS snapshot, no grid
NoHubEnv == [FullEnv EXCEPT !.apihub = FALSE]

\* the seeded table with every answer, or the wide table without AWS data
InitCycle ==
  /\ \/ weather_stations = SeededStations /\ env \in {FullEnv, NoHubEnv}
     \/ weather_stations = WideStations /\ env = WideEnv
  /\ dbFails = {}
  /\ SchedInit
  /\ CycleInit
  /\ QuotaInit
  /\ FetchInit

\* the cycles of processStations alone, the scheduler not started
CycleNext ==
  \/ CycleStart
  \/ AwsFetched
  \/ \E c \in inFlight : FetchSettle(c)
  \/ EvalStation
  \/ BatchPauseDone

SpecCycle == InitCycle /\ [][CycleNext]_vars

\* the wide table with one more station, which shares the first cell
SharedWideStations ==
  [s \in 1..(BATCH_SIZE + 2) |->
     [metro_id |-> ((s - 1) % NumMetros) + 1, cell |-> IF s = 1 THEN 1 ELSE s - 1]]

\* the sets of stations whose rows the database may refuse
FaultSets(stations) == {D \in SUBSET stations : Cardinality(D) = MaxFaultyStations}

\* two batches of cells, the rows of some stations refused by the database
InitFaults ==
  /\ weather_stations = SharedWideStations
  /\ env = WideEnv
  /\ dbFails \in FaultSets(DOMAIN weather_stations)
  /\ SchedInit
  /\ CycleInit
  /\ QuotaInit
  /\ FetchInit

\* the cycles of processStations with an unreliable database
SpecFaults == InitFaults /\ [][CycleNext]_vars

\* the gateway alone, called by whichever service at any time
QuotaNext ==
  \/ \E op \in GuardedOps : CallKmaApi(op)
  \/ \E op \in DirectOps : ApihubRequest(op)
  \/ RequestSettles
  \/ DayRollover

SpecQuota == Init /\ [][QuotaNext]_vars

\* the states an alert check can start from
StatesBeforeCheck ==
  {[level |-> "IDLE", affectedMetroIds |-> <<>>, consecutiveErrors |-> e] : e \in {0, 1}}
    \cup {[level |-> "ACTIVE", affectedMetroIds |-> SortAsc(M), consecutiveErrors |-> e] :
            M \in SUBSET Metros, e \in {0, 1}}

\* the call count an alert check can meet: any count up to the limit, of
\* the current day or left from the day before
QuotaBeforeCheck ==
  /\ apiCallCount \in 0..DailyLimit
  /\ apiCallDate \in {0, 1}
  /\ kstDay = 1
  /\ requestsInFlight = 0
  /\ entered = 0
  /\ lastCall = [op |-> "none", thrown |-> FALSE]
  /\ sentPastLimit = {}

InitAlerts ==
  /\ weather_stations = SeededStations
  /\ env = FullEnv
  /\ dbFails = {}
  /\ alertState \in StatesBeforeCheck
  /\ TimersInit
  /\ CycleInit
  /\ QuotaBeforeCheck
  /\ FetchInit

\* one alert check, from any state and for any answer
SpecAlerts == InitAlerts /\ [][AlertCheck]_vars

Next ==
  \/ StartScheduler
  \/ AlertTimerFire
  \/ AlertCheckDone
  \/ FastTimerFire
  \/ SlowTimerFire
  \/ \E i \in 1..Len(running) : PollScope(i)
  \/ \E i \in 1..Len(running) : PollFinish(i)

Spec == Init /\ [][Next]_vars

\* the scheduler under the event loop's guarantees: a timeout that stays armed
\* fires, and an awaited bulletin fetch, scope query or processStations call
\* settles
SpecLive ==
  /\ Init /\ [][Next]_vars
  /\ WF_vars(StartScheduler)
  /\ WF_vars(AlertTimerFire)
  /\ WF_vars(AlertCheckDone)
  /\ WF_vars(FastTimerFire)
  /\ WF_vars(SlowTimerFire)
  /\ WF_vars(\E i \in 1..Len(running) : PollScope(i))
  /\ WF_vars(\E i \in 1..Len(running) : PollFinish(i))

\* =================================================================== claims
\* helpers of the claims
InProcess(q, tier) == {i \in 1..Len(q) : q[i].tier = tier /\ q[i].pc = "process"}
AffectedSet(st) == SeqToSet(st.affectedMetroIds)
InMetros(M) == {s \in Stations : StationMetro(s) \in M}

\* C1: at most one poll invocation is past the run-lock at any time, so at
\* most one processStations is in progress: cycles of the two tiers, or two
\* cycles of one tier, never overlap.
C1_MutualExclusion ==
  /\ Len(running) <= 1
  /\ Cardinality(InProcess(running, "fast") \cup InProcess(running, "slow")) <= 1
  /\ (running # <<>>) => isPollRunning

\* a slow timer fired while a fast cycle was processing, and was turned away
C1_Witness ==
  /\ lastEvent = "slowSkip"
  /\ Len(running) = 1 /\ running[1].tier = "fast" /\ running[1].pc = "process"

\* what C2 requires of one step
C2_FailSafe_Step ==
  lastEvent' = "alertError" =>
    /\ alertState'.level = alertState.level
    /\ alertState'.affectedMetroIds = alertState.affectedMetroIds
    /\ alertState'.consecutiveErrors = alertState.consecutiveErrors + 1
    /\ lastCheck' = [changed |-> FALSE, error |-> TRUE]

\* C2: a failed bulletin fetch leaves level and affectedMetroIds as they
\* were, adds exactly 1 to consecutiveErrors and returns error = true,
\* changed = false.
C2_FailSafe ==
  [][C2_FailSafe_Step]_vars

\* a check failed while ACTIVE with two affected metros: still ACTIVE, same metros
C2_Witness ==
  /\ lastEvent = "alertError"
  /\ alertState.level = "ACTIVE"
  /\ Len(alertState.affectedMetroIds) = 2
  /\ alertState.consecutiveErrors = 1

\* what C3 requires of one step
C3_ImmediateFastStart_Step ==
  (alertState.level = "IDLE" /\ alertState'.level = "ACTIVE") =>
    /\ Len(running') = Len(running) + 1
    /\ running'[Len(running')].tier = "fast"

\* C3: whenever a successful alert check flips IDLE to ACTIVE, a fast cycle
\* starts in that very handler run (the claim as stated; the code arms the
\* fast timer for FAST_POLL_INTERVAL instead when the run-lock is held).
C3_ImmediateFastStart ==
  [][C3_ImmediateFastStart_Step]_vars

\* what C4 requires of one step
C4_FastStopsOnIdle_Step ==
  /\ (alertState.level = "ACTIVE" /\ alertState'.level = "IDLE") =>
       (fastPending' = 0 /\ fastPollTimer' = "null")
  /\ alertState'.level = "IDLE" =>
       /\ fastPending' = 0
       /\ Cardinality(InProcess(running', "fast"))
             <= Cardinality(InProcess(running, "fast"))
       /\ lastEvent' \notin {"fastStart", "toActiveStart", "fastProcess"}
  /\ (lastEvent' \in {"fastEnd", "fastError", "fastEndEmpty"} /\ alertState.level = "IDLE") =>
       (fastPending' = 0 /\ fastPollTimer' # "live")

\* C4: an ACTIVE to IDLE flip cancels the pending fast timer; while the level
\* is IDLE no fast timer is pending and no fast cycle begins processing
\* stations, and a fast cycle that ends while IDLE arms no fast timer.
C4_FastStopsOnIdle ==
  [][C4_FastStopsOnIdle_Step]_vars

\* a fast cycle that was processing when the level went IDLE has ended and
\* left no fast timer behind
C4_Witness ==
  /\ lastEvent = "fastEnd"
  /\ alertState.level = "IDLE"
  /\ fastPending = 0

\* what C5 requires of one step
C5_SkipAndRearm_Step ==
  /\ lastEvent' = "fastSkip" =>
        /\ isPollRunning /\ isPollRunning'
        /\ running' = running
        /\ fastPollTimer' = "live" /\ fastPending' = 1
        /\ fastDelay' = FAST_POLL_INTERVAL
        /\ UNCHANGED slowTimerVars
  /\ lastEvent' = "slowSkip" =>
        /\ isPollRunning /\ isPollRunning'
        /\ running' = running
        /\ slowPollTimer' = "live" /\ slowPending' = 1
        /\ slowDelay' = SLOW_POLL_INTERVAL
        /\ UNCHANGED fastTimerVars

\* C5: a timer that fires while the run-lock is held starts nothing, re-arms
\* its own timer for its normal interval and leaves nothing waiting for the
\* lock; each tier has at most one pending timer.
C5_SkipAndRearm ==
  /\ [](fastPending <= 1 /\ slowPending <= 1)
  /\ [][C5_SkipAndRearm_Step]_vars

\* the fast timer fired during a slow cycle and was re-armed
C5_Witness ==
  /\ lastEvent = "fastSkip"
  /\ Len(running) = 1 /\ running[1].tier = "slow"
  /\ fastPending = 1 /\ fastDelay = FAST_POLL_INTERVAL

\* the slow tier's scope as the claim states it
SlowScopeClaim(st) ==
  IF st.consecutiveErrors > 0 THEN Stations
  ELSE IF st.level = "IDLE" THEN Stations
  ELSE Stations \ InMetros(AffectedSet(st))

\* what C6 requires of one step
C6_SlowScope_Step ==
  /\ lastEvent' = "slowProcess" =>
       \E i \in 1..Len(running') :
          /\ running'[i].tier = "slow"
          /\ running'[i].stations = SlowScopeClaim(alertState)
  /\ lastEvent' = "slowEndEmpty" => SlowScopeClaim(alertState) = {}

\* C6: the scope a slow cycle computes is all stations while the alert check
\* is erroring, all stations when IDLE, and otherwise exactly the stations
\* outside the affected metros.
C6_SlowScope ==
  [][C6_SlowScope_Step]_vars

\* a slow cycle, with an alert in force and the alert check healthy,
\* processes a proper part of the stations
C6_Witness ==
  /\ lastEvent = "slowProcess"
  /\ alertState.level = "ACTIVE"
  /\ alertState.consecutiveErrors = 0
  /\ running[1].stations # Stations

\* what C7 requires of one step
C7_FastScope_Step ==
  /\ lastEvent' = "fastProcess" =>
       /\ alertState.level = "ACTIVE"
       /\ \E i \in 1..Len(running') :
             /\ running'[i].tier = "fast"
             /\ running'[i].stations = InMetros(AffectedSet(alertState))
  /\ lastEvent' \in {"fastStart", "toActiveStart"} =>
       (alertState'.level = "ACTIVE" \/ alertState'.consecutiveErrors > 0)
  /\ (lastEvent' = "fastEndEmpty" /\ alertState.level = "ACTIVE") =>
       InMetros(AffectedSet(alertState)) = {}

\* C7: a fast cycle's scope is within the metros affected when the scope is
\* computed and is empty when the level is IDLE then; a fast invocation gets
\* past its guard only with level ACTIVE or consecutiveErrors > 0.
C7_FastScope ==
  [][C7_FastScope_Step]_vars

\* a fast cycle processes the stations of the one affected metro only
C7_Witness ==
  /\ lastEvent = "fastProcess"
  /\ Len(alertState.affectedMetroIds) = 1
  /\ running[1].stations = InMetros(AffectedSet(alertState))
  /\ running[1].stations # Stations

\* the cells of the stations handed to the current cycle
CycleCells == {CellOf(cycStations[i]) : i \in 1..Len(cycStations)}

\* every cell whose fetch was issued had it issued exactly once, and a
\* finished cycle has issued one for every cell of its stations and has
\* evaluated every station once
FetchedOncePerCell ==
  /\ DOMAIN fetchCount \subseteq CycleCells
  /\ \A c \in DOMAIN fetchCount : fetchCount[c] = 1
  /\ cpc = "done" =>
       /\ DOMAIN fetchCount = CycleCells
       /\ Len(evalLog) = Len(cycStations)
       /\ {evalLog[i].station : i \in 1..Len(evalLog)} = SeqToSet(cycStations)

\* C8 as stated: within one cycle the realtime fetch is issued exactly once
\* for every cell with an input station, and every station of the cell is
\* evaluated with the same realtime value.
C8_SameRealtimeValue ==
  /\ FetchedOncePerCell
  /\ \A i, j \in 1..Len(evalLog) :
       evalLog[i].cell = evalLog[j].cell =>
         evalLog[i].realtime15min = evalLog[j].realtime15min

\* C8: within one cycle getAWSRealtime15min is called exactly once for every
\* cell with an input station, every station of the cell is handed the value
\* that call settled with, and the stations of the cell that have no direct
\* AWS measurement are evaluated with the same realtime value.
C8_SameFetchedValue ==
  /\ FetchedOncePerCell
  /\ \A i \in 1..Len(evalLog) :
       /\ evalLog[i].cell \in DOMAIN realtimeResults
       /\ evalLog[i].preloaded = realtimeResults[evalLog[i].cell]
  /\ \A i, j \in 1..Len(evalLog) :
       (/\ evalLog[i].cell = evalLog[j].cell
        /\ ~HasAwsRn15(evalLog[i].station)
        /\ ~HasAwsRn15(evalLog[j].station)) =>
         evalLog[i].realtime15min = evalLog[j].realtime15min

\* a finished cycle evaluated two stations of one cell from the one fetched
\* value, 25.0 mm over the baseline of the cycle before
C8_Witness ==
  /\ cpc = "done"
  /\ \E i, j \in 1..Len(evalLog) :
       /\ i # j
       /\ evalLog[i].cell = evalLog[j].cell
       /\ fetchCount[evalLog[i].cell] = 1
       /\ ~HasAwsRn15(evalLog[i].station)
       /\ ~HasAwsRn15(evalLog[j].station)
       /\ evalLog[i].preloaded = 250
       /\ evalLog[i].realtime15min = 250
       /\ evalLog[j].realtime15min = 250

\* what C9 requires of one step
C9_ShortCircuit_Step ==
  (/\ Len(evalLog') = Len(evalLog) + 1
   /\ evalLog'[Len(evalLog')].realtime15min <= REALTIME_THRESHOLD) =>
     LET e == evalLog'[Len(evalLog')] IN
     /\ forecastCalls' = forecastCalls
     /\ forecastCache' = forecastCache
     /\ ~e.forecastCalled
     /\ rainfall_forecast' = Append(rainfall_forecast, <<e.station, 0>>)
     /\ e.alarm = FALSE
     /\ e.forecastHourly = 0
     /\ emitted' = emitted

\* C9: an evaluation whose resolved realtime15min is at most
\* REALTIME_THRESHOLD (20.0 mm included) makes no forecast call, inserts a
\* forecast row of 0 and returns alarm = false with forecastHourly = 0.
C9_ShortCircuit ==
  [][C9_ShortCircuit_Step]_vars

\* a station measured at exactly 20.0 mm was evaluated: no forecast call
\* was made in the cycle, its forecast row is 0 and it did not alarm
C9_Witness ==
  /\ Len(evalLog) = 1
  /\ evalLog[1].realtime15min = REALTIME_THRESHOLD
  /\ forecastCalls = 0
  /\ forecastCache = EmptyMap
  /\ rainfall_forecast = <<(<<evalLog[1].station, 0>>)>>
  /\ ~evalLog[1].alarm
  /\ evalLog[1].forecastHourly = 0

C11_NoAlarmOnAbsentData ==
  \A i \in 1..Len(evalLog) :
    LET e == evalLog[i] IN
    /\ (~HasAwsRn15(e.station) /\ e.cell \in realtimeFailed) =>
         /\ e.preloaded = 0
         /\ e.realtime15min = 0
         /\ ~e.alarm
         /\ e.station \notin SeqToSet(emitted)
    /\ e.cell \in forecastFailed =>
         /\ e.forecastHourly = 0
         /\ ~e.alarm
         /\ e.station \notin SeqToSet(emitted)

\* one station was evaluated after its cell's realtime request failed and
\* without an AWS measurement; another, measured above the threshold, after
\* the grid request and the fallback request both failed
C11_Witness ==
  \E i, j \in 1..Len(evalLog) :
    /\ ~HasAwsRn15(evalLog[i].station)
    /\ evalLog[i].cell \in realtimeFailed
    /\ evalLog[i].realtime15min = 0
    /\ evalLog[j].realtime15min > REALTIME_THRESHOLD
    /\ evalLog[j].cell \in forecastFailed
    /\ forecastRequests[evalLog[j].cell] = [vsrt |-> 1, fcst |-> 1]
    /\ ~evalLog[j].alarm

\* what C12 requires of one step
C12_DailyLimit_Step ==
  entered' = entered + 1 =>
    /\ apiCallDate' = kstDay
    /\ entered < DailyLimit =>
         /\ ~lastCall'.thrown
         /\ apiCallCount' = entered + 1
         /\ requestsInFlight' = requestsInFlight + 1
    /\ entered >= DailyLimit =>
         /\ lastCall'.thrown
         /\ apiCallCount' = DailyLimit
         /\ requestsInFlight' = requestsInFlight

\* C12: of the callKmaApi invocations of one KST day the first dailyLimit
\* send their request and count it, every later one throws without sending
\* anything; the first invocation of a new day counts from 0 again.
C12_DailyLimit ==
  [][C12_DailyLimit_Step]_vars

\* on the second day, after the count restarted, the invocation after the
\* dailyLimit-th has thrown
C12_Witness ==
  /\ kstDay = 2
  /\ entered = DailyLimit + 1
  /\ lastCall.thrown
  /\ lastCall.op \in GuardedOps
  /\ apiCallCount = DailyLimit
  /\ apiCallDate = 2

\* C13: once the count has reached dailyLimit, no request of any kind goes
\* out to the provider for the rest of the KST day.
C13_GuardCoversAll ==
  sentPastLimit = {}

\* C14: after a successful bulletin fetch consecutiveErrors is 0; with no
\* qualifying bulletin the state is IDLE with no affected metro, otherwise
\* it is ACTIVE and affectedMetroIds lists, in ascending order and without
\* duplicates, exactly the metro ids the alerts' regions resolve to.
C14_StateAfterSuccess ==
  wrnResponse.kind = "items" =>
    /\ ~lastFetch.hasError
    /\ alertState.consecutiveErrors = 0
    /\ Len(lastFetch.alerts) = 0 =>
         alertState.level = "IDLE" /\ alertState.affectedMetroIds = <<>>
    /\ Len(lastFetch.alerts) > 0 =>
         /\ alertState.level = "ACTIVE"
         /\ SeqToSet(alertState.affectedMetroIds)
              = UNION {lastFetch.alerts[i] : i \in 1..Len(lastFetch.alerts)}
         /\ \A i, j \in 1..Len(alertState.affectedMetroIds) :
              i < j => alertState.affectedMetroIds[i] < alertState.affectedMetroIds[j]

\* two authorities' latest bulletins carry one alert each, one naming Seoul
\* twice and Busan, the other a place outside the table: ACTIVE <<1, 2>>
C14_Witness ==
  /\ wrnResponse.kind = "items"
  /\ Len(lastFetch.alerts) = 2
  /\ lastFetch.alerts[1] = {1, 2}
  /\ lastFetch.alerts[2] = {}
  /\ alertState = [level |-> "ACTIVE", affectedMetroIds |-> <<1, 2>>,
                   consecutiveErrors |-> 0]

\* what C15 requires of one step
C15_ChangedIffLevel_Step ==
  wrnResponse' # wrnResponse =>
    /\ lastCheck'.changed <=> alertState'.level # alertState.level
    /\ (/\ ~lastFetch'.hasError
        /\ alertState.level = "ACTIVE"
        /\ alertState'.level = "ACTIVE") =>
         SeqToSet(alertState'.affectedMetroIds)
           = UNION {lastFetch'.alerts[i] : i \in 1..Len(lastFetch'.alerts)}

\* C15: updateAlertState returns changed = true exactly when the level
\* after the check differs from the level before it; a successful check
\* that stays ACTIVE returns changed = false and still replaces
\* affectedMetroIds by the newly resolved set.
C15_ChangedIffLevel ==
  [][C15_ChangedIffLevel_Step]_vars

\* a successful check found ACTIVE with metro 1 and left ACTIVE with metros
\* 1 and 2: changed = false, the affected set replaced
C15_Witness ==
  /\ wrnResponse.kind = "items"
  /\ prevAlertState.level = "ACTIVE"
  /\ prevAlertState.affectedMetroIds = <<1>>
  /\ alertState.level = "ACTIVE"
  /\ alertState.affectedMetroIds = <<1, 2>>
  /\ lastCheck = [changed |-> FALSE, error |-> FALSE]

\* item i is the most recent bulletin of its authority in the list (the
\* earlier one of two with the same issue time)
MostRecentOfAuthority(items, i) ==
  \A j \in 1..Len(items) :
    items[j].stnId = items[i].stnId =>
      \/ items[j].tmFc < items[i].tmFc
      \/ items[j].tmFc = items[i].tmFc /\ i <= j

\* the heavy-rain lines of item i
RainLinesOf(items, i) ==
  {k \in 1..Len(items[i].t2) : items[i].t2[k].rain}

\* C16: the alerts of a day's bulletin list are exactly the heavy-rain
\* watches and warnings of each authority's most recent bulletin: nothing
\* from an authority's earlier bulletins, and nothing lost because another
\* authority issued a bulletin later.
C16_LatestPerAuthority ==
  wrnResponse.kind = "items" =>
    LET items == wrnResponse.items
        kept  == {i \in 1..Len(items) : MostRecentOfAuthority(items, i)}
        lines == UNION {{<<i, k>> : k \in RainLinesOf(items, i)} : i \in kept}
    IN /\ Len(lastFetch.alerts) = Cardinality(lines)
       /\ {lastFetch.alerts[n] : n \in 1..Len(lastFetch.alerts)}
            = {{REGION_TO_METRO_ID(items[l[1]].t2[l[2]].regions[r]) :
                  r \in 1..Len(items[l[1]].t2[l[2]].regions)} \ {0} : l \in lines}

\* authority 1 warned for Seoul and Busan and later issued a bulletin
\* without a warning; authority 2 warned for Seoul before that: the only
\* alert is authority 2's, Busan is not affected
C16_Witness ==
  /\ wrnResponse.kind = "items"
  /\ wrnResponse.items =
       <<[stnId |-> 1, tmFc |-> 1, t2 |-> <<RainLine(<<"Seoul", "Busan", "Seoul">>)>>],
         [stnId |-> 2, tmFc |-> 1, t2 |-> <<RainLine(<<"Seoul-teukbyeolsi">>)>>],
         [stnId |-> 1, tmFc |-> 2, t2 |-> <<OtherLine>>]>>
  /\ lastFetch.alerts = <<{1}>>
  /\ alertState.level = "ACTIVE"
  /\ alertState.affectedMetroIds = <<1>>

\* what C17 requires of one step
C17_SuccessInterval_Step ==
  (alertChecks' = alertChecks - 1 /\ lastEvent' # "alertThrow"
     /\ ~lastCheck'.error) =>
    /\ alertCheckTimer' = "live"
    /\ alertPending' >= 1
    /\ alertState'.level = "ACTIVE" => alertDelay' = 300000
    /\ alertState'.level = "IDLE" => alertDelay' = 1800000

\* C17: every successful alert check arms the next one for 5 minutes if
\* the resulting level is ACTIVE and for 30 minutes if it is IDLE, whether
\* or not the level changed.
C17_SuccessInterval ==
  [][C17_SuccessInterval_Step]_vars

\* a successful check kept the level ACTIVE and armed the next one for
\* five minutes
C17_Witness ==
  /\ lastEvent = "alertSame"
  /\ lastCheck = [changed |-> FALSE, error |-> FALSE]
  /\ alertState.level = "ACTIVE"
  /\ alertCheckTimer = "live"
  /\ alertPending = 1
  /\ alertDelay = ALERT_CHECK_ACTIVE

\* what C18 requires of one step
C18_ErrorBackoff_Step ==
  (alertChecks' = alertChecks - 1 /\ lastEvent' # "alertThrow"
     /\ lastCheck'.error) =>
    LET n == alertState'.consecutiveErrors IN
    /\ n = alertState.consecutiveErrors + 1
    /\ alertState'.level = alertState.level
    /\ alertCheckTimer' = "live"
    /\ alertPending' >= 1
    /\ alertDelay' = CASE n = 1 -> 300000
                       [] n = 2 -> 600000
                       [] n = 3 -> 1200000
                       [] OTHER -> 1800000

\* C18: the n-th consecutive failed alert check arms the next one for
\* min(5 min * 2^(n-1), 30 min): 5, 10, 20 and from the fourth on 30
\* minutes; the level stays as it was.
C18_ErrorBackoff ==
  [][C18_ErrorBackoff_Step]_vars

\* two checks in a row failed from IDLE: still IDLE, consecutiveErrors 2,
\* the retry armed for twice the active interval
C18_Witness ==
  /\ lastEvent = "alertError"
  /\ alertState = [level |-> "IDLE", affectedMetroIds |-> <<>>, consecutiveErrors |-> 2]
  /\ alertCheckTimer = "live"
  /\ alertPending = 1
  /\ alertDelay = 2 * ALERT_CHECK_ACTIVE


\* a slow-tier timeout is armed or a slow-tier invocation is between its
\* start and its re-arming
SlowTierAlive ==
  \/ slowPending >= 1
  \/ \E i \in 1..Len(running) : running[i].tier = "slow"

\* the ways an invocation of runSlowPoll ends
SlowInvocationEnds == {"slowSkip", "slowEnd", "slowError", "slowEndEmpty"}

\* what C19 requires of one step
C19_SlowAlwaysRunning_Step ==
  /\ started' => SlowTierAlive'
  /\ lastEvent' \in SlowInvocationEnds =>
       /\ slowPollTimer' = "live"
       /\ slowPending' >= 1
       /\ slowDelay' = 1800000

\* C19: once the scheduler is started a slow timer is pending or a slow
\* cycle is executing, at every alert level; every invocation of the slow
\* tier (skipped, empty, completed or ended by an error) leaves the slow
\* timer armed for 30 minutes.
C19_SlowAlwaysRunning ==
  [][C19_SlowAlwaysRunning_Step]_vars

\* a slow cycle ended with an error while an alert was in force and the slow
\* timer is armed again for the slow interval
C19_Witness ==
  /\ lastEvent = "slowError"
  /\ alertState.level = "ACTIVE"
  /\ slowPending >= 1
  /\ slowDelay = SLOW_POLL_INTERVAL


\* the evaluations of cell c in this cycle that called getVsrtForecastHourly
ForecastResolutions(c) ==
  {i \in 1..Len(evalLog) : evalLog[i].cell = c /\ evalLog[i].forecastCalled}

\* the outbound forecast requests made for cell c in this cycle, over both
\* products
ForecastRequestsOf(c) ==
  IF c \in DOMAIN forecastRequests
  THEN forecastRequests[c].vsrt + forecastRequests[c].fcst
  ELSE 0

\* the getAWSRealtime15min calls made for cell c in this cycle
RealtimeCallsOf(c) == IF c \in DOMAIN fetchCount THEN fetchCount[c] ELSE 0

\* C20 as stated: within one cycle at most one external forecast request and
\* at most one external realtime call are made for each grid cell, also when
\* the primary forecast product fails and the fallback is used.
C20_OneCallPerCell ==
  \A c \in CycleCells :
    /\ ForecastRequestsOf(c) <= 1
    /\ RealtimeCallsOf(c) <= 1

\* C20: within one cycle getVsrtForecastHourly is called at most once and
\* getAWSRealtime15min at most once for each grid cell, however many stations
\* share it; the one forecast call sends at most one request to each
\* forecast product, and with the primary product configured the fallback
\* is asked only after a request to the primary, two requests in all.
C20_OneResolutionPerCell ==
  /\ DOMAIN forecastRequests \subseteq CycleCells
  /\ \A c \in CycleCells :
       /\ Cardinality(ForecastResolutions(c)) <= 1
       /\ RealtimeCallsOf(c) <= 1
       /\ c \in DOMAIN forecastRequests =>
            /\ forecastRequests[c].vsrt <= 1
            /\ forecastRequests[c].fcst <= 1
            /\ Cardinality(ForecastResolutions(c)) = 1
            /\ ~env.apihub => forecastRequests[c] = [vsrt |-> 0, fcst |-> 1]
            /\ (env.apihub /\ forecastRequests[c].fcst = 1) =>
                 forecastRequests[c].vsrt = 1

\* two stations of one cell were both evaluated above the realtime
\* threshold; the first met a failing primary product and the fallback was
\* asked, the second was served from the forecast cache
C20_Witness ==
  \E i, j \in 1..Len(evalLog) :
    /\ i < j
    /\ evalLog[i].cell = evalLog[j].cell
    /\ evalLog[i].realtime15min > REALTIME_THRESHOLD
    /\ evalLog[j].realtime15min > REALTIME_THRESHOLD
    /\ evalLog[i].forecastCalled /\ ~evalLog[j].forecastCalled
    /\ forecastRequests[evalLog[i].cell] = [vsrt |-> 1, fcst |-> 1]
    /\ fetchCount[evalLog[i].cell] = 1


\* max(0, x)
NonNegative(x) == IF x > 0 THEN x ELSE 0

\* what C21 requires of one step
C21_DeltaFromBaseline_Step ==
  (/\ Len(evalLog') = Len(evalLog) + 1
   /\ ~HasAwsRn15(evalLog'[Len(evalLog')].station)) =>
     LET e == evalLog'[Len(evalLog')] IN
     IF e.cell \in DOMAIN prevRN1ByGrid
     THEN e.realtime15min = NonNegative(e.preloaded - prevRN1ByGrid[e.cell])
     ELSE /\ e.realtime15min = 0
          /\ ~e.alarm
          /\ ~e.forecastCalled
          /\ emitted' = emitted

\* C21: a station without a direct measurement is evaluated with
\* max(0, fetched accumulation - the cell's baseline); with no baseline for
\* the cell the value is 0, so the evaluation raises no alarm and asks for
\* no forecast.
C21_DeltaFromBaseline ==
  [][C21_DeltaFromBaseline_Step]_vars

\* in the first cycle a station whose cell answered 25.0 mm was evaluated
\* with 0 and raised no alarm
C21_Witness ==
  /\ cycleNo = 1
  /\ \E i \in 1..Len(evalLog) :
       /\ ~HasAwsRn15(evalLog[i].station)
       /\ evalLog[i].preloaded = 250
       /\ evalLog[i].realtime15min = 0
       /\ ~evalLog[i].alarm


\* the evaluations of this cycle for the stations of cell c
EvaluationsOf(c) == {i \in 1..Len(evalLog) : evalLog[i].cell = c}

JustEvaluated == cpc = "eval" /\ evalPos[2] > 1 /\ Len(evalLog) > 0

\* C23: checkAlarmCondition run again for the station just evaluated, with
\* the same preloaded value and the caches as the first run left them,
\* returns the same realtime15min, forecastHourly and alarm, leaves
\* forecastCache as it is and makes no forecast call, whatever the provider
\* would answer now.
C23_Idempotent ==
  JustEvaluated =>
    LET e == evalLog[Len(evalLog)] IN
    \A fetched \in ForecastValues :
      LET r == checkAlarmCondition(e.station, e.preloaded, e.cell, fetched) IN
      /\ r.realtime15min = e.realtime15min
      /\ r.forecastHourly = e.forecastHourly
      /\ r.alarm = e.alarm
      /\ ~r.forecastCalled
      /\ r.cache = forecastCache

\* the station just evaluated fetched a forecast of 60.0 mm and raised an
\* alarm; a second run would find the forecast in the cache
C23_Witness ==
  /\ JustEvaluated
  /\ evalLog[Len(evalLog)].forecastCalled
  /\ evalLog[Len(evalLog)].forecastHourly = 600
  /\ evalLog[Len(evalLog)].alarm


\* the stations of cell c evaluated so far in this cycle
EvaluatedIn(log, c) == {log[i].station : i \in {j \in 1..Len(log) : log[j].cell = c}}

\* what C24 requires of one step
C24_BaselineAfterCell_Step ==
  \A c \in DOMAIN prevRN1ByGrid' :
    (c \notin DOMAIN prevRN1ByGrid \/ prevRN1ByGrid'[c] # prevRN1ByGrid[c]) =>
      /\ Len(evalLog') = Len(evalLog) + 1
      /\ evalLog'[Len(evalLog')].cell = c
      /\ EvaluatedIn(evalLog', c) = SeqToSet(GroupStations(cycStations, c))
      /\ prevRN1ByGrid'[c] = realtimeResults[c]
      /\ \A i \in 1..Len(evalLog) :
           evalLog[i].cell = c => evalLog[i].station # evalLog'[Len(evalLog')].station

\* C24: the baseline of a cell changes only in the step that evaluates the
\* last station of the cell in the cycle, after every station of the cell
\* has been evaluated (each once), and becomes the value fetched for the
\* cell in this cycle; every evaluation of the cell has therefore read a
\* baseline written by an earlier cycle.
C24_BaselineAfterCell ==
  [][C24_BaselineAfterCell_Step]_vars

\* in the second cycle both stations of a cell were evaluated with the
\* delta over the first cycle's 0 before the baseline became 25.0 mm
C24_Witness ==
  /\ cycleNo = 2
  /\ \E i, j \in 1..Len(evalLog) :
       /\ i # j
       /\ evalLog[i].cell = evalLog[j].cell
       /\ ~HasAwsRn15(evalLog[i].station) /\ ~HasAwsRn15(evalLog[j].station)
       /\ evalLog[i].realtime15min = 250 /\ evalLog[j].realtime15min = 250
       /\ prevRN1ByGrid[evalLog[i].cell] = 250


\* what C25 requires of one step
C25_FailedFetchKeepsBaseline_Step ==
  \A c \in realtimeFailed :
    IF c \in DOMAIN prevRN1ByGrid
    THEN prevRN1ByGrid'[c] = prevRN1ByGrid[c]
    ELSE c \notin DOMAIN prevRN1ByGrid'

\* C25: a cell whose realtime request of this cycle failed (it threw or
\* brought no body) keeps the baseline it had, or keeps having none.
C25_FailedFetchKeepsBaseline ==
  [][C25_FailedFetchKeepsBaseline_Step]_vars


\* what C26 requires of the step that begins a cycle
C26_CachesCleared_Step ==
  cycleNo' = cycleNo + 1 =>
    /\ forecastCache' = EmptyMap
    /\ vsrtGridCache' = NullGridCache
    /\ awsDataCache' = EmptyMap
    /\ fetchCount' = EmptyMap /\ evalLog' = <<>> /\ forecastRequests' = EmptyMap

\* what C26 requires of every state: what the caches hold was put there in
\* this cycle
CachesOfThisCycle ==
  /\ DOMAIN forecastCache = DOMAIN forecastRequests
  /\ vsrtGridCache.loaded =>
       \E c \in DOMAIN forecastRequests : forecastRequests[c].vsrt = 1
  /\ cpc = "aws" => awsDataCache = EmptyMap
  /\ \A i \in 1..Len(evalLog) :
       (evalLog[i].realtime15min > REALTIME_THRESHOLD /\ ~evalLog[i].forecastCalled) =>
         \E j \in 1..(i - 1) :
           /\ evalLog[j].cell = evalLog[i].cell
           /\ evalLog[j].forecastCalled
           /\ evalLog[j].forecastHourly = evalLog[i].forecastHourly

\* C26: the step that begins a cycle leaves the forecast cache, the
\* forecast-grid cache and the station-snapshot cache empty before any fetch
\* or evaluation of the cycle; what the caches hold later was fetched in the
\* same cycle, and a forecast served from the cache was fetched by an
\* earlier evaluation of the same cycle.
C26_CachesCleared ==
  [][C26_CachesCleared_Step /\ CachesOfThisCycle']_vars

\* in the second cycle the grid was requested again and a forecast fetched,
\* then served from the cache to the other station of the cell
C26_Witness ==
  /\ cycleNo = 2
  /\ vsrtGridCache.loaded
  /\ \E i, j \in 1..Len(evalLog) :
       /\ j < i
       /\ evalLog[j].cell = evalLog[i].cell
       /\ evalLog[j].forecastCalled /\ ~evalLog[i].forecastCalled
       /\ evalLog[i].realtime15min > REALTIME_THRESHOLD
       /\ evalLog[i].forecastHourly = 600
       /\ forecastRequests[evalLog[i].cell].vsrt = 1


\* the cells of the batches 1..k
CellsThrough(k) == UNION {SeqToSet(Batches[b]) : b \in 1..k}

\* the batches are consecutive slices of the unique cells of the cycle, full
\* ones followed by at most one shorter one
BatchesPartitionCells ==
  /\ SeqToSet(gridEntries) = CycleCells
  /\ Cardinality(SeqToSet(gridEntries)) = Len(gridEntries)
  /\ \A b \in 1..Len(Batches) :
       /\ Len(Batches[b]) >= 1 /\ Len(Batches[b]) <= BATCH_SIZE
       /\ b < Len(Batches) => Len(Batches[b]) = BATCH_SIZE
       /\ \A k \in 1..Len(Batches[b]) :
            Batches[b][k] = gridEntries[(b - 1) * BATCH_SIZE + k]
  /\ CellsThrough(Len(Batches)) = SeqToSet(gridEntries)
  /\ \A b1, b2 \in 1..Len(Batches) :
       b1 # b2 => SeqToSet(Batches[b1]) \cap SeqToSet(Batches[b2]) = {}

\* what C27 requires of one step
C27_BatchesSequential_Step ==
  /\ cpc' \in {"fetch", "eval", "pause", "done"} => BatchesPartitionCells'
  /\ Cardinality(inFlight') <= BATCH_SIZE
  /\ inFlight' # {} => inFlight' \subseteq SeqToSet(Batches'[batchIdx'])
  /\ (batchIdx' = batchIdx + 1) =>
       /\ inFlight = {}
       /\ inFlight' = SeqToSet(Batches'[batchIdx'])
       /\ CellsThrough(batchIdx) \subseteq DOMAIN realtimeResults
       /\ \A c \in CellsThrough(batchIdx) :
            EvaluatedIn(evalLog, c) = SeqToSet(GroupStations(cycStations, c))

\* C27: the unique cells of a cycle are split into consecutive batches of at
\* most BATCH_SIZE cells, each cell in exactly one batch; a batch is issued
\* only when no fetch is in flight and every cell of the batches before has
\* settled, so at most BATCH_SIZE realtime fetches are in flight.
C27_BatchesSequential ==
  [][C27_BatchesSequential_Step]_vars

\* six cells: the sixth cell's fetch is in flight alone in the second batch
\* after the five of the first batch have settled
C27_Witness ==
  /\ cpc = "fetch"
  /\ batchIdx = 2
  /\ Len(Batches[1]) = BATCH_SIZE
  /\ Cardinality(inFlight) = 1
  /\ SeqToSet(Batches[1]) \subseteq DOMAIN realtimeResults


\* the stations whose evaluation has returned in this cycle
Evaluated == {evalLog[i].station : i \in 1..Len(evalLog)}

\* the stations of the cycle whose evaluation threw: the loop has passed
\* them and they have not returned
Thrown == (SeqToSet(cycStations) \cap dbFails) \ Evaluated

\* C28: a cycle in which the realtime request of a cell failed or the
\* evaluation of a station threw still ends having fetched every cell of
\* every batch once and evaluated every station whose own evaluation did
\* not throw, the other stations of the affected cell included, and having
\* written every cell's baseline.
C28_FailureIsolated ==
  cpc = "done" =>
    /\ DOMAIN fetchCount = CycleCells
    /\ DOMAIN realtimeResults = CycleCells
    /\ SeqToSet(cycStations) \ dbFails \subseteq Evaluated
    /\ Len(evalLog) = Cardinality(Evaluated)
    /\ CycleCells \subseteq DOMAIN prevRN1ByGrid

\* the cycle over all seven stations ended; the realtime request of the
\* first cell failed and the evaluation of one of its two stations threw,
\* the other station of the cell, the other cells of the first batch and
\* the cell of the second batch were evaluated
C28_Witness ==
  /\ cpc = "done"
  /\ Len(cycStations) = BATCH_SIZE + 2
  /\ realtimeFailed = {1}
  /\ Thrown = {1}
  /\ Evaluated = SeqToSet(cycStations) \ {1}
  /\ Len(Batches) = 2


\* what C29 requires of one step
C29_FallbackOrder_Step ==
  (/\ Len(evalLog') = Len(evalLog) + 1
   /\ evalLog'[Len(evalLog')].forecastCalled) =>
     LET e == evalLog'[Len(evalLog')]
         q == forecastRequests'[e.cell]
     IN
     /\ e.cell \in DOMAIN forecastRequests'
     /\ e.cell \notin DOMAIN forecastRequests
     /\ (env.apihub /\ vsrtGridCache'.loaded) =>
          /\ q.fcst = 0
          /\ q.vsrt = (IF vsrtGridCache.loaded THEN 0 ELSE 1)
          /\ e.forecastHourly = LookupGrid(vsrtGridCache'.grid, e.cell)
     /\ ~env.apihub => q = [vsrt |-> 0, fcst |-> 1]
     /\ (env.apihub /\ ~vsrtGridCache'.loaded) => q = [vsrt |-> 1, fcst |-> 1]
     /\ q.fcst = 1 => e.forecastHourly \in ForecastValues
     /\ (q.fcst = 1 /\ e.cell \in forecastFailed') =>
          /\ e.forecastHourly = 0
          /\ ~e.alarm
          /\ emitted' = emitted
     /\ rainfall_forecast' = Append(rainfall_forecast, <<e.station, e.forecastHourly>>)

\* C29: an evaluation that resolves a forecast uses the grid when the key
\* is configured and the grid is loaded (requested now or earlier in the
\* cycle) and then does not ask the fallback; without the key, or when the
\* grid request fails, it asks the fallback; when the fallback fails too
\* the forecast is 0, the evaluation returns alarm = false and the forecast
\* row is inserted.
C29_FallbackOrder ==
  [][C29_FallbackOrder_Step]_vars

\* the grid request failed, the fallback failed too: a station with more
\* than 20.0 mm was evaluated with forecast 0, no alarm, and its forecast
\* row of 0 was inserted
C29_Witness ==
  \E i \in 1..Len(evalLog) :
    /\ evalLog[i].forecastCalled
    /\ evalLog[i].realtime15min > REALTIME_THRESHOLD
    /\ forecastRequests[evalLog[i].cell] = [vsrt |-> 1, fcst |-> 1]
    /\ evalLog[i].cell \in forecastFailed
    /\ evalLog[i].forecastHourly = 0
    /\ ~evalLog[i].alarm
    /\ rainfall_forecast[i] = <<evalLog[i].station, 0>>


\* what the handlers of the two polling tiers report
PollEvents ==
  {"fastSkip", "fastNoop", "fastStart", "fastProcess", "fastEndEmpty", "fastEnd",
   "fastError", "slowSkip", "slowStart", "slowProcess", "slowEndEmpty", "slowEnd",
   "slowError"}

\* what C30 requires of one step
C30_SingleWriter_Step ==
  /\ alertState' # alertState =>
       (alertChecks' = alertChecks - 1 /\ lastEvent' \notin PollEvents)
  /\ lastEvent' \in PollEvents => alertState' = alertState

\* C30: level, affectedMetroIds and consecutiveErrors change only in the
\* step that completes updateAlertState; the timer callbacks of both tiers,
\* the computation of their scopes and the end of their cycles leave the
\* alert state as it was.
C30_SingleWriter ==
  [][C30_SingleWriter_Step]_vars

\* a slow cycle has processed its stations and ended while an alert is
\* in force after a failed check: the state is as the check left it
C30_Witness ==
  /\ lastEvent = "slowEnd"
  /\ alertState.level = "ACTIVE"
  /\ alertState.affectedMetroIds # <<>>
  /\ alertState.consecutiveErrors >= 1


\* what C31 requires of one step
C31_OneReadingPerEvaluation_Step ==
  /\ (Len(evalLog') = Len(evalLog) + 1) =>
       LET e == evalLog'[Len(evalLog')] IN
       /\ rainfall_realtime' = Append(rainfall_realtime, <<e.station, e.realtime15min>>)
       /\ rainfall_forecast' = Append(rainfall_forecast, <<e.station, e.forecastHourly>>)
       /\ e.realtime15min =
            IF HasAwsRn15(e.station)
            THEN awsDataCache[e.station]
            ELSE IF e.cell \in DOMAIN prevRN1ByGrid
                 THEN NonNegative(e.preloaded - prevRN1ByGrid[e.cell])
                 ELSE 0
  /\ (Len(evalLog') = Len(evalLog)) =>
       (Len(rainfall_realtime') <= Len(rainfall_realtime) /\
        Len(rainfall_forecast') <= Len(rainfall_forecast))

\* C31: an evaluation that returns inserts exactly one realtime row and one
\* forecast row for its station, alarm or not; the realtime row holds the
\* realtime15min it returns, which is the station's direct measurement when
\* the AWS cache has one and the delta over the cell's baseline otherwise;
\* no other step inserts a row.
C31_OneReadingPerEvaluation ==
  [][C31_OneReadingPerEvaluation_Step]_vars

\* second cycle: one station was evaluated with its direct measurement of
\* 20.1 mm and alarmed, another with the delta of 25.0 mm and did not; each
\* has its one realtime row and its one forecast row
C31_Witness ==
  /\ cycleNo = 2
  /\ Len(rainfall_realtime) = Len(evalLog)
  /\ Len(rainfall_forecast) = Len(evalLog)
  /\ \E i, j \in 1..Len(evalLog) :
       /\ HasAwsRn15(evalLog[i].station)
       /\ evalLog[i].alarm
       /\ rainfall_realtime[i] = <<evalLog[i].station, 201>>
       /\ rainfall_forecast[i] = <<evalLog[i].station, evalLog[i].forecastHourly>>
       /\ ~HasAwsRn15(evalLog[j].station)
       /\ ~evalLog[j].alarm
       /\ rainfall_realtime[j] = <<evalLog[j].station, 250>>
       /\ rainfall_forecast[j] = <<evalLog[j].station, evalLog[j].forecastHourly>>


\* a fast-tier timeout is armed or a fast-tier invocation is between its
\* start and its end
FastTierAlive ==
  \/ fastPending >= 1
  \/ \E i \in 1..Len(running) : running[i].tier = "fast"

\* C32: whenever the alert level is ACTIVE a fast-tier timer is pending or
\* a fast-tier cycle is in progress, in every interleaving of alert checks
\* (successful or failed) with the cycles of both tiers.
C32_FastAliveWhileActive ==
  alertState.level = "ACTIVE" => FastTierAlive

\* a failed check has kept ACTIVE while a slow cycle holds the lock, and the
\* fast tier waits on its re-armed timer
C32_Witness ==
  /\ alertState.level = "ACTIVE"
  /\ alertState.consecutiveErrors >= 1
  /\ \E i \in 1..Len(running) : running[i].tier = "slow"
  /\ fastPending >= 1
  /\ \A i \in 1..Len(running) : running[i].tier # "fast"


\* C33: for the alert state of every reachable state each station is in the
\* scope the slow tier or the scope the fast tier computes from it.
C33_NoStationUnpolled ==
  getStationsForSlowPoll(alertState) \cup getStationsForFastPoll(alertState) = Stations

\* a check found a rain alert whose regions resolve to no metro: ACTIVE with
\* an empty affected set, the fast scope empty and the slow scope complete
C33_Witness ==
  /\ wrnResponse # WrnNone
  /\ alertState.level = "ACTIVE"
  /\ alertState.affectedMetroIds = <<>>
  /\ alertState.consecutiveErrors = 0
  /\ getStationsForFastPoll(alertState) = {}
  /\ getStationsForSlowPoll(alertState) = Stations


\* the events of an invocation that found the run-lock held
FastSkipEvents == {"fastSkip", "toActiveSkip"}
FastStartEvents == {"fastStart", "toActiveStart"}

\* C34: the run-lock is set exactly while one cycle is executing; every cycle
\* that ends, by returning or by throwing, leaves it clear; a set lock is
\* eventually clear again; an invocation that was skipped leaves its tier's
\* timeout armed.
C34_LockReleased ==
  /\ [](isPollRunning <=> Len(running) = 1)
  /\ [](lastEvent \in {"fastEnd", "fastError", "fastEndEmpty",
                       "slowEnd", "slowError", "slowEndEmpty"}
         => ~isPollRunning)
  /\ (isPollRunning ~> ~isPollRunning)
  /\ [](lastEvent = "slowSkip" => slowPending > 0)
  /\ [](lastEvent \in FastSkipEvents => fastPending > 0)

\* C34 as stated: a tier whose invocation was skipped eventually starts a
\* cycle.
C34_SkippedTierRuns ==
  /\ (lastEvent = "slowSkip" ~> lastEvent = "slowStart")
  /\ (lastEvent \in FastSkipEvents ~> lastEvent \in FastStartEvents)

C34_Witness ==
  /\ lastEvent = "slowError"
  /\ ~isPollRunning
  /\ running = <<>>
  /\ slowPending = 1
  /\ fastPending = 1
  /\ alertState.level = "ACTIVE"


\* the count that applies on the current KST day
CountToday == IF apiCallDate = kstDay THEN apiCallCount ELSE 0

\* what C35 requires of one step, with other requests still in flight or not
C35_CountedOnce_Step ==
  /\ (entered' = entered + 1 /\ ~lastCall'.thrown) =>
       /\ CountToday < DailyLimit
       /\ apiCallCount' = CountToday + 1
       /\ requestsInFlight' = requestsInFlight + 1
  /\ (entered' = entered + 1 /\ lastCall'.thrown) =>
       /\ CountToday = DailyLimit
       /\ apiCallCount' = CountToday
       /\ requestsInFlight' = requestsInFlight
  /\ requestsInFlight' < requestsInFlight => apiCallCount' = apiCallCount

\* C35: the count never exceeds dailyLimit, whatever requests are in flight;
\* an invocation that passes the limit test raises the count by exactly one
\* in the step that sends its request, one that fails the test leaves it, and
\* the settling of a request, with an answer or an error, does not change it.
C35_CountedOnce ==
  /\ [](apiCallCount <= DailyLimit)
  /\ [][C35_CountedOnce_Step]_vars

\* two counted requests are in flight together and a third invocation has
\* been refused
C35_Witness ==
  /\ requestsInFlight = 2
  /\ apiCallCount = DailyLimit
  /\ apiCallDate = kstDay
  /\ entered > DailyLimit
  /\ lastCall.thrown


\* the events that end an alert check
AlertCheckOutcomes ==
  {"alertError", "alertSame", "toIdle", "toActiveSkip", "toActiveNoop",
   "toActiveStart", "alertThrow"}

\* what C36 requires of one step
C36_AlertLoopAlive_Step ==
  alertChecks' = alertChecks - 1 =>
    /\ lastEvent' \in AlertCheckOutcomes
    /\ alertCheckTimer' = "live"
    /\ alertPending' = alertPending + 1
    /\ alertPending' = 1

\* C36: once the scheduler has started there is at every moment exactly one
\* alert check armed or in progress; each way a check can end (failed fetch,
\* success with ACTIVE, success with IDLE, exception) arms one timeout and
\* leaves one pending; and alert checks keep starting for ever.
C36_AlertLoopAlive ==
  /\ [](alertPending <= 1)
  /\ [](started => alertPending + alertChecks = 1)
  /\ [][C36_AlertLoopAlive_Step]_vars
  /\ []<>(lastEvent = "alertFire")

\* a check that threw has armed the next one for the active interval
C36_Witness ==
  /\ lastEvent = "alertThrow"
  /\ alertPending = 1
  /\ alertChecks = 0
  /\ alertCheckTimer = "live"
  /\ alertDelay = ALERT_CHECK_ACTIVE
  /\ alertState.level = "IDLE"


\* what C37 requires of one step
C37_QuotaIsFailedFetch_Step ==
  (QuotaExhausted /\ wrnResponse' # WrnNone) =>
    /\ lastCall' = [op |-> "getWthrWrnList", thrown |-> TRUE]
    /\ lastFetch' = [hasError |-> TRUE, alerts |-> <<>>]
    /\ lastCheck' = [changed |-> FALSE, error |-> TRUE]
    /\ alertState'.consecutiveErrors = alertState.consecutiveErrors + 1
    /\ alertState'.level = alertState.level
    /\ alertState'.affectedMetroIds = alertState.affectedMetroIds
    /\ getErrorBackoff(alertState'.consecutiveErrors) >= ALERT_CHECK_ACTIVE
    /\ getStationsForSlowPoll(alertState') = Stations

\* C37: an alert check made while the call count stands at the daily limit
\* ends as a failed fetch: error = true and changed = false, one more
\* consecutive error, level and affected metros as before, the slow scope
\* all stations; so ACTIVE stays ACTIVE.
C37_QuotaIsFailedFetch ==
  [][C37_QuotaIsFailedFetch_Step]_vars

\* the check met an exhausted quota while an alert was in force
C37_Witness ==
  /\ wrnResponse = WrnThrow
  /\ lastCall = [op |-> "getWthrWrnList", thrown |-> TRUE]
  /\ apiCallCount = DailyLimit
  /\ apiCallDate = kstDay
  /\ prevAlertState.level = "ACTIVE"
  /\ prevAlertState.consecutiveErrors = 0
  /\ alertState.level = "ACTIVE"
  /\ alertState.affectedMetroIds = prevAlertState.affectedMetroIds
  /\ alertState.consecutiveErrors = 1


\* the stations whose evaluation returned alarm = true in this cycle
Alarmed == {evalLog[i].station : i \in {j \in 1..Len(evalLog) : evalLog[j].alarm}}

\* what C38 requires of one step
C38_AlarmEvents_Step ==
  emitted' # emitted =>
    \/ cpc' = "aws" /\ emitted' = <<>>
    \/ /\ Len(evalLog') = Len(evalLog) + 1
       /\ evalLog'[Len(evalLog')].alarm
       /\ emitted' = Append(emitted, evalLog'[Len(evalLog')].station)

\* C38: in a cycle the stations emitAlarm was called for are exactly those
\* whose evaluation returned alarm = true, each once; a station whose
\* evaluation threw has none; the list grows only in the step in which an
\* evaluation returns alarm = true.
C38_AlarmEvents ==
  /\ [](SeqToSet(emitted) = Alarmed)
  /\ [](\A i, j \in 1..Len(emitted) : i # j => emitted[i] # emitted[j])
  /\ [](SeqToSet(emitted) \cap Thrown = {})
  /\ [][C38_AlarmEvents_Step]_vars

\* the cycle is over: the evaluation of station 1 threw, station 2 of the
\* same cell alarmed, and so did a station of another cell
C38_Witness ==
  /\ cpc = "done"
  /\ Thrown = {1}
  /\ CellOf(1) = CellOf(2)
  /\ 2 \in SeqToSet(emitted)
  /\ Len(emitted) = 2
  /\ \E i \in 1..Len(evalLog) : ~evalLog[i].alarm


\* what C39 requires of one step
C39_BroadcastOnFlip_Step ==
  /\ alertChecks' = alertChecks - 1 =>
       /\ alertStateSent' <=> /\ lastEvent' \notin {"alertError", "alertThrow"}
                              /\ alertState'.level # alertState.level
       /\ lastEvent' = "alertError" => ~alertStateSent'
       /\ (/\ alertState'.level = alertState.level
           /\ alertState'.affectedMetroIds # alertState.affectedMetroIds)
            => ~alertStateSent'
  /\ alertChecks' # alertChecks - 1 => alertStateSent' = alertStateSent

\* C39: a run of runAlertCheck calls emitAlertState exactly when its check
\* succeeded and the level after it differs from the level before; not after
\* a failed check, not after a successful check that keeps the level while
\* replacing the affected metros; no other handler calls it.
C39_BroadcastOnFlip ==
  [][C39_BroadcastOnFlip_Step]_vars

\* a successful check kept ACTIVE, with both metros affected, and nothing
\* was broadcast
C39_Witness ==
  /\ lastEvent = "alertSame"
  /\ lastCheck = [changed |-> FALSE, error |-> FALSE]
  /\ alertState.level = "ACTIVE"
  /\ alertState.affectedMetroIds = <<1, 2>>
  /\ ~alertStateSent
  /\ alertChecks = 0

====
